---- MODULE Spec2Model ----
(***************************************************************************)
(* Model of hdlproject's output pipeline for one run:                      *)
(*   VivadoOutputParser.parse_line      (utils/vivado_output_parser.py)    *)
(*   VivadoOutputProcessor              (core/output_processor.py)         *)
(*   ProjectStatus / LiveStatusDisplay  (utils/status_display.py)          *)
(* A run has two reader threads (STDOUT, STDERR) that log, classify and    *)
(* apply each line, and a coordinator that waits for the process, joins    *)
(* the readers, finalizes and computes the run's success.                  *)
(*                                                                         *)
(* Python's None is the string "None"; Optional[bool] values are the       *)
(* strings "True" / "False" / "None".  List indices keep Python's 0-based  *)
(* values (current_step_index = -1 initially); the k-th element of a       *)
(* Python list is element k+1 of the TLA+ sequence.                        *)
(***************************************************************************)
EXTENDS Integers, Sequences, FiniteSets, TLC

\* Number of lines the spawned process may write to its output channel, and
\* to its error channel: half as many, so that the state space stays
\* tractable as the bound grows.
MaxOut == 2

MaxErr == MaxOut \div 2

Channels == {"STDOUT", "STDERR"}

MaxLines(t) == IF t = "STDOUT" THEN MaxOut ELSE MaxErr

(***************************************************************************)
(* StepPattern: the dataclass and its four factory methods.  A regex       *)
(* pattern is modelled by the phrase it searches for; a line matches the   *)
(* pattern iff the line's text contains that phrase.                       *)
(***************************************************************************)
StepPattern(step_name, patterns, is_start, is_tcl_step, is_failure_pattern) ==
    [step_name |-> step_name, patterns |-> patterns, is_start |-> is_start,
     is_tcl_step |-> is_tcl_step, is_failure_pattern |-> is_failure_pattern]

\* StepPattern(name, [patterns]) with the dataclass defaults, as the handlers write it.
StepPatternDefault(step_name, patterns) ==
    StepPattern(step_name, patterns, FALSE, FALSE, FALSE)

StepPattern_tcl(step_name, proc_name) ==
    StepPattern(step_name,
                {"[HDLPROJECT_STEP_SUCCESS] " \o proc_name,
                 "[HDLPROJECT_STEP_WARNING] " \o proc_name,
                 "[HDLPROJECT_STEP_ERROR] " \o proc_name},
                FALSE, TRUE, FALSE)

StepPattern_start(step_name, pattern) ==
    StepPattern(step_name, {pattern}, TRUE, FALSE, FALSE)

StepPattern_complete(step_name, pattern) ==
    StepPattern(step_name, {pattern}, FALSE, FALSE, FALSE)

StepPattern_failed(step_name, pattern) ==
    StepPattern(step_name, {pattern}, FALSE, FALSE, TRUE)

(***************************************************************************)
(* Lines.  A line is identified by its text; LineFeatures gives what the   *)
(* parser's substring tests and regular expressions see in it:             *)
(*   blank    line.strip() is empty                                        *)
(*   fp       contains one of FALSE_POSITIVE_PATTERNS                      *)
(*   tag      which bracketed HDLPROJECT tag it contains                   *)
(*   value    the tag's extracted value ("None" when the regex fails);     *)
(*            for the timing tag: the status word                          *)
(*   report   the timing tag's report= path                                *)
(*   marker   which [HDLPROJECT_STEP_*] prefix it contains                 *)
(*   phrases  the step-pattern phrases it contains                         *)
(*   w, e     groups 1 and 2 of _count_pattern (-1: group absent)          *)
(*   err, crit, warn   matches ERROR_PATTERNS / CRITICAL_WARNING_PATTERNS  *)
(*            / WARNING_PATTERNS                                           *)
(***************************************************************************)
PlainLine ==
    [blank |-> FALSE, fp |-> FALSE, tag |-> "none", value |-> "None",
     report |-> "None", marker |-> "none", phrases |-> {},
     w |-> -1, e |-> -1, err |-> FALSE, crit |-> FALSE, warn |-> FALSE]

MarkerLine(kind, proc, w, e) ==
    [PlainLine EXCEPT !.marker = kind,
                      !.phrases = {"[HDLPROJECT_STEP_" \o kind \o "] " \o proc},
                      !.w = w, !.e = e]

PhraseLine(phrase) == [PlainLine EXCEPT !.phrases = {phrase}]

LineFeatures(line) ==
    CASE line = "" -> [PlainLine EXCEPT !.blank = TRUE]
      [] line = "set error_count 0" -> [PlainLine EXCEPT !.fp = TRUE]
      [] line = "Reading design" -> PlainLine
      [] line = "ERROR: x" -> [PlainLine EXCEPT !.err = TRUE]
      [] line = "WARNING: x" -> [PlainLine EXCEPT !.warn = TRUE]
      [] line = "CRITICAL WARNING: x" ->
             [PlainLine EXCEPT !.crit = TRUE, !.warn = TRUE]
      [] line = "ERROR: WARNING: x" ->
             [PlainLine EXCEPT !.err = TRUE, !.warn = TRUE]
      [] line = "ERROR: CRITICAL WARNING: x" ->
             [PlainLine EXCEPT !.err = TRUE, !.crit = TRUE, !.warn = TRUE]
      [] line = "ERROR: no error" -> [PlainLine EXCEPT !.err = TRUE, !.fp = TRUE]
      [] line = "ERROR: S failed" ->
             [PhraseLine("S failed") EXCEPT !.err = TRUE]
      [] line = "ERROR: [HDLPROJECT_STEP_SUCCESS] pa" ->
             [MarkerLine("SUCCESS", "pa", -1, -1) EXCEPT !.err = TRUE]
      [] line = "ERROR: [HDLPROJECT_PROJECT_CONTEXT] name=n" ->
             [PlainLine EXCEPT !.tag = "context", !.value = "n", !.err = TRUE]
      [] line = "   " -> [PlainLine EXCEPT !.blank = TRUE]
      [] line = "Start S done" ->
             [PlainLine EXCEPT !.phrases = {"Start S", "S done"}]
      [] line = "[HDLPROJECT_BUILD_ARTEFACTS] S done" ->
             [PhraseLine("S done") EXCEPT !.tag = "artefacts", !.value = "S done"]
      [] line = "[HDLPROJECT_PROJECT_CONTEXT] name=no error" ->
             [PlainLine EXCEPT !.tag = "context", !.value = "no error",
                               !.fp = TRUE]
      [] line = "WARNING: S done" -> [PhraseLine("S done") EXCEPT !.warn = TRUE]
      [] line = "CRITICAL WARNING: S failed" ->
             [PhraseLine("S failed") EXCEPT !.crit = TRUE, !.warn = TRUE]
      [] line = "[HDLPROJECT_STEP_SUCCESS] pa" -> MarkerLine("SUCCESS", "pa", -1, -1)
      [] line = "[HDLPROJECT_STEP_WARNING] pa [W:1 E:0]" -> MarkerLine("WARNING", "pa", 1, 0)
      [] line = "[HDLPROJECT_STEP_ERROR] pa [W:2 E:1]" -> MarkerLine("ERROR", "pa", 2, 1)
      [] line = "[HDLPROJECT_STEP_ERROR] pa" -> MarkerLine("ERROR", "pa", -1, -1)
      [] line = "Begin pa" -> PhraseLine("Begin pa")
      [] line = "Start S" -> PhraseLine("Start S")
      [] line = "S done" -> PhraseLine("S done")
      [] line = "S failed" -> PhraseLine("S failed")
      [] line = "[HDLPROJECT_TIMING_RESULT] status=FAILED report=/r" ->
             [PlainLine EXCEPT !.tag = "timing", !.value = "FAILED", !.report = "/r"]
      [] line = "[HDLPROJECT_TIMING_RESULT] status=PASSED report=/r" ->
             [PlainLine EXCEPT !.tag = "timing", !.value = "PASSED", !.report = "/r"]
      [] line = "[HDLPROJECT_PROJECT_CONTEXT] name=n" ->
             [PlainLine EXCEPT !.tag = "context", !.value = "n"]
      [] line = "[HDLPROJECT_BUILD_ARTEFACTS] /p" ->
             [PlainLine EXCEPT !.tag = "artefacts", !.value = "/p"]

\* The lines a run's process may write.
Lines ==
    {"Reading design", "ERROR: x", "WARNING: x", "CRITICAL WARNING: x",
     "[HDLPROJECT_STEP_SUCCESS] pa",
     "[HDLPROJECT_STEP_WARNING] pa [W:1 E:0]",
     "[HDLPROJECT_STEP_ERROR] pa [W:2 E:1]",
     "[HDLPROJECT_STEP_ERROR] pa",
     "Begin pa", "Start S", "S done", "S failed",
     "[HDLPROJECT_TIMING_RESULT] status=FAILED report=/r",
     "[HDLPROJECT_TIMING_RESULT] status=PASSED report=/r",
     "[HDLPROJECT_PROJECT_CONTEXT] name=n",
     "[HDLPROJECT_BUILD_ARTEFACTS] /p"}

\* The lines the parser is given on its own: those of a run, blank lines,
\* and lines in which two of the features parse_line tests meet.
ParserLines ==
    Lines \cup
    {"", "set error_count 0", "ERROR: WARNING: x", "ERROR: CRITICAL WARNING: x",
     "ERROR: no error", "ERROR: S failed",
     "ERROR: [HDLPROJECT_STEP_SUCCESS] pa",
     "ERROR: [HDLPROJECT_PROJECT_CONTEXT] name=n",
     "   ", "Start S done", "[HDLPROJECT_BUILD_ARTEFACTS] S done",
     "[HDLPROJECT_PROJECT_CONTEXT] name=no error", "WARNING: S done",
     "CRITICAL WARNING: S failed"}

(***************************************************************************)
(* VivadoOutputParser                                                      *)
(***************************************************************************)
ParsedMessage(type) ==
    [type |-> type, step_name |-> "None", is_failure |-> FALSE,
     step_result |-> "None", warning_count |-> 0,
     critical_warning_count |-> 0, error_count |-> 0,
     project_context_name |-> "None", build_artefacts_path |-> "None",
     is_step_start |-> FALSE, is_tcl_step |-> FALSE,
     timing_passed |-> "None", timing_report_path |-> "None"]

\* _extract_timing_result: status=(\w+) upper-cased and compared with PASSED.
extract_timing_passed(f) ==
    IF f.value = "None" THEN "None"
    ELSE IF f.value = "PASSED" THEN "True" ELSE "False"

\* group(k) of _count_pattern, used only when the group took part in the match.
count_group(g) == IF g = -1 THEN 0 ELSE g

Matches(step, f) == step.patterns \cap f.phrases # {}

\* _check_step_patterns: the first registered definition with a matching pattern.
check_step_patterns(step_patterns, f) ==
    LET hits == {i \in 1..Len(step_patterns) : Matches(step_patterns[i], f)}
    IN IF hits = {} THEN ParsedMessage("None")
       ELSE
         LET i == CHOOSE k \in hits : \A j \in hits : k <= j
             step == step_patterns[i]
             counted == f.marker \in {"WARNING", "ERROR"}
             step_result ==
                 CASE f.marker = "SUCCESS" -> "success"
                   [] f.marker = "WARNING" -> "warning"
                   [] f.marker = "ERROR" -> "error"
                   [] f.marker = "none" /\ step.is_failure_pattern -> "error"
                   [] f.marker = "none" /\ ~step.is_failure_pattern /\ ~step.is_start -> "success"
                   [] OTHER -> "None"
             is_failure ==
                 \/ f.marker = "ERROR"
                 \/ f.marker = "none" /\ step.is_failure_pattern
         IN [ParsedMessage("STEP_UPDATE") EXCEPT
                !.step_name = step.step_name,
                !.is_failure = is_failure,
                !.step_result = step_result,
                !.warning_count = IF counted THEN count_group(f.w) ELSE 0,
                !.error_count = IF counted THEN count_group(f.e) ELSE 0,
                !.is_step_start = step.is_start,
                !.is_tcl_step = step.is_tcl_step]

\* parse_line with the step patterns tested before the tags.
parse_line_steps_first(step_patterns, line) ==
    LET f == LineFeatures(line)
        step == check_step_patterns(step_patterns, f)
    IN CASE f.blank -> ParsedMessage("INFO")
         [] ~f.blank /\ f.fp -> ParsedMessage("INFO")
         [] ~f.blank /\ ~f.fp /\ step.type # "None" -> step
         [] ~f.blank /\ ~f.fp /\ step.type = "None" /\ f.tag = "context" ->
              [ParsedMessage("PROJECT_CONTEXT") EXCEPT !.project_context_name = f.value]
         [] ~f.blank /\ ~f.fp /\ step.type = "None" /\ f.tag = "artefacts" ->
              [ParsedMessage("BUILD_ARTEFACTS") EXCEPT !.build_artefacts_path = f.value]
         [] ~f.blank /\ ~f.fp /\ step.type = "None" /\ f.tag = "timing" ->
              [ParsedMessage("TIMING_RESULT") EXCEPT
                   !.timing_passed = extract_timing_passed(f),
                   !.timing_report_path = f.report]
         [] OTHER ->
              IF f.err THEN ParsedMessage("ERROR")
              ELSE IF f.crit THEN ParsedMessage("CRITICAL_WARNING")
              ELSE IF f.warn /\ ~f.crit THEN ParsedMessage("WARNING")
              ELSE ParsedMessage("INFO")

parse_line(step_patterns, line) ==
    LET f == LineFeatures(line)
        step == check_step_patterns(step_patterns, f)
    IN CASE f.blank -> ParsedMessage("INFO")
         [] ~f.blank /\ f.fp -> ParsedMessage("INFO")
         [] ~f.blank /\ ~f.fp /\ f.tag = "context" ->
              [ParsedMessage("PROJECT_CONTEXT") EXCEPT !.project_context_name = f.value]
         [] ~f.blank /\ ~f.fp /\ f.tag = "artefacts" ->
              [ParsedMessage("BUILD_ARTEFACTS") EXCEPT !.build_artefacts_path = f.value]
         [] ~f.blank /\ ~f.fp /\ f.tag = "timing" ->
              [ParsedMessage("TIMING_RESULT") EXCEPT
                   !.timing_passed = extract_timing_passed(f),
                   !.timing_report_path = f.report]
         [] OTHER ->
              IF step.type # "None" THEN step
              ELSE IF f.err THEN ParsedMessage("ERROR")
              ELSE IF f.crit THEN ParsedMessage("CRITICAL_WARNING")
              ELSE IF f.warn /\ ~f.crit THEN ParsedMessage("WARNING")
              ELSE ParsedMessage("INFO")

(***************************************************************************)
(* ProjectStatus (utils/status_display.py).  Timestamps are left out,      *)
(* except that start_time records whether it has been set.                 *)
(***************************************************************************)
Step(name) ==
    [name |-> name, state |-> "pending", warning_count |-> 0, error_count |-> 0]

ProjectStatus(steps) ==
    [steps |-> [k \in 1..Len(steps) |-> Step(steps[k])],
     current_step_index |-> -1, overall_state |-> "pending",
     start_time |-> FALSE, total_warnings |-> 0, total_errors |-> 0]

\* 0-based index of the first step called step_name, -1 when there is none
\* (the for/enumerate/break loops of start_step and complete_step_with_result).
StepIndex(steps, step_name) ==
    LET hits == {k \in 1..Len(steps) : steps[k].name = step_name}
    IN IF hits = {} THEN -1
       ELSE (CHOOSE k \in hits : \A j \in hits : k <= j) - 1

start_step(ps, step_name) ==
    LET cur == ps.current_step_index
        closed == IF cur >= 0 /\ ps.steps[cur + 1].state = "running"
                  THEN [ps.steps EXCEPT ![cur + 1].state = "completed"]
                  ELSE ps.steps
        i == StepIndex(closed, step_name)
    IN IF i < 0 THEN [ps EXCEPT !.steps = closed]
       ELSE [ps EXCEPT
               !.steps = [k \in 1..Len(closed) |->
                   IF k - 1 = i THEN [closed[k] EXCEPT !.state = "running"]
                   ELSE IF k - 1 >= cur + 1 /\ k - 1 < i /\ closed[k].state = "pending"
                        THEN [closed[k] EXCEPT !.state = "skipped"]
                        ELSE closed[k]],
               !.current_step_index = i]

complete_step_with_result(ps, step_name, state, warning_count, error_count) ==
    LET cur == ps.current_step_index
        i == StepIndex(ps.steps, step_name)
    IN IF i < 0 THEN ps
       ELSE [ps EXCEPT
               !.steps = [k \in 1..Len(ps.steps) |->
                   IF k - 1 = i
                   THEN [ps.steps[k] EXCEPT !.state = state,
                                            !.warning_count = warning_count,
                                            !.error_count = error_count]
                   ELSE IF cur >= 0 /\ cur < i /\ k - 1 >= cur /\ k - 1 < i
                        THEN IF ps.steps[k].state = "running"
                             THEN [ps.steps[k] EXCEPT !.state = "completed"]
                             ELSE IF ps.steps[k].state = "pending"
                                  THEN [ps.steps[k] EXCEPT !.state = "skipped"]
                                  ELSE ps.steps[k]
                        ELSE ps.steps[k]],
               !.total_warnings = @ + warning_count,
               !.total_errors = @ + error_count,
               !.current_step_index = i]

fail(ps) ==
    LET cur == ps.current_step_index
    IN [ps EXCEPT
          !.overall_state = "failed",
          !.steps = [k \in 1..Len(ps.steps) |->
              IF cur >= 0 /\ k - 1 = cur
              THEN [ps.steps[k] EXCEPT !.state = "failed"]
              ELSE IF k - 1 >= cur + 1 /\ ps.steps[k].state = "pending"
                   THEN [ps.steps[k] EXCEPT !.state = "skipped"]
                   ELSE ps.steps[k]]]

complete(ps, with_warnings) ==
    LET cur == ps.current_step_index
    IN [ps EXCEPT
          !.overall_state = IF with_warnings \/ ps.total_warnings > 0
                            THEN "warning" ELSE "completed",
          !.steps = [k \in 1..Len(ps.steps) |->
              IF cur >= 0 /\ k - 1 = cur /\ ps.steps[k].state = "running"
              THEN [ps.steps[k] EXCEPT !.state = "completed"]
              ELSE IF ps.steps[k].state = "pending"
                   THEN [ps.steps[k] EXCEPT !.state = "skipped"]
                   ELSE ps.steps[k]]]

(***************************************************************************)
(* LiveStatusDisplay, for the one project of the run.  The display's       *)
(* bookkeeping is the same in both display modes.                          *)
(***************************************************************************)
start_project(ps) ==
    IF ps.overall_state = "pending"
    THEN [ps EXCEPT !.overall_state = "running", !.start_time = TRUE]
    ELSE ps

\* The keyword parameters update_project_step declares.
update_project_step_params ==
    {"failed", "message", "warning_count", "error_count", "step_result"}

\* The methods LiveStatusDisplay defines, among those the processor calls.
LiveStatusDisplay_methods ==
    {"start_project", "update_project_step", "complete_project", "process_output"}

update_project_step(ps, step_name, failed, warning_count, error_count, step_result) ==
    LET started == IF ~ps.start_time
                   THEN [ps EXCEPT !.start_time = TRUE, !.overall_state = "running"]
                   ELSE ps
    IN CASE failed -> fail(started)
         [] ~failed /\ step_result = "warning" ->
              complete_step_with_result(started, step_name, "warning",
                                        warning_count, error_count)
         [] ~failed /\ step_result = "error" ->
              complete_step_with_result(started, step_name, "failed",
                                        warning_count, error_count)
         [] ~failed /\ step_result = "success" ->
              complete_step_with_result(started, step_name, "completed", 0, 0)
         [] OTHER -> start_step(started, step_name)

complete_project(ps, success) ==
    IF success THEN complete(ps, ps.total_warnings > 0) ELSE fail(ps)

(***************************************************************************)
(* The run: configuration, processor state, display state, readers.        *)
(***************************************************************************)
VARIABLES
    step_patterns,    \* the StepPattern list handed to the parser
    status_display,   \* TRUE iff the processor has a status display
    project,          \* the display's ProjectStatus of this run
    p,                \* the VivadoOutputProcessor's fields
    pc,               \* per reader thread: where it is in _process_stream
    parsed,           \* per reader thread: the ParsedMessage being handled
    local,            \* per reader thread: locals of the handler it is in
    emitted,          \* per channel: lines the process has written
    log_file,         \* the run's log: per stream_name, the number of records
                      \* "[timestamp] [stream_name] line_content" written
    main,             \* where process_output is
    exit_code,        \* process.wait() result, -1 while the process runs
    result,           \* what process_output returned
    seen,             \* history: what the lines handled so far contained
    parsed_line,      \* what parse_line returned for line_content
    line_content      \* the line given to the parser on its own ("None":
                      \* none yet, or the run's lines are not recorded)

\* A batch of runs under BaseHandler.execute (handlers/base/handler.py).
VARIABLES
    handler,          \* the handler and its batch: interactive, supports_parallel,
                      \* options.cores, the system's core count, the projects
    batch,            \* execute's position and locals: max_workers, results,
                      \* the errors raised out of the executing method
    run               \* per project: how far its run is and how it ended

run_vars == <<step_patterns, status_display, project, p, pc, parsed, local,
              emitted, log_file, main, exit_code, result, seen, line_content,
              parsed_line>>

line_vars == <<line_content, parsed_line>>

batch_vars == <<handler, batch, run>>

\* A status display on its own (utils/status_display.py), driven through
\* its public methods the way StatusManager and the processor drive it.
VARIABLES
    displays,         \* per display mode: a LiveStatusDisplay of that mode;
                      \* both are given the same calls
    session           \* how far the display's life is, and the calls so far

display_vars == <<displays, session>>

\* The locks of the processors, the display and its ProjectStatus objects,
\* and the threads that take them.
VARIABLES
    holder,           \* per lock: the thread that holds it, if any
    depth,            \* per lock: how many times its holder has acquired it
    todo,             \* per thread: the lock operations left of the method
                      \* it is executing
    stage,            \* per thread: how far its function has come
    overall_state     \* per project: the overall_state of its ProjectStatus

lock_vars == <<holder, depth, todo, stage, overall_state>>

vars == <<run_vars, batch_vars, display_vars, lock_vars>>

\* What a run's, a batch's and a display's actions leave alone.
beside_run == <<batch_vars, display_vars, lock_vars>>

beside_batch == <<run_vars, display_vars, lock_vars>>

beside_display == <<run_vars, batch_vars, lock_vars>>

beside_locks == <<run_vars, batch_vars, display_vars>>

\* No display is modelled on its own.
NoDisplay == displays = "None" /\ session = "None"

\* No locks are modelled.
NoLocks ==
    /\ holder = "None" /\ depth = "None" /\ todo = "None"
    /\ stage = "None" /\ overall_state = "None"

\* No batch is modelled: the run stands alone.
NoBatch == handler = "None" /\ batch = "None" /\ run = "None"

\* The display's step list (OperationConfig.operation_steps).
operation_steps == <<"A", "B", "S">>

\* Definitions a caller of the parser can register: a marked (TCL) step A
\* reported by markers, with a start line of its own, and a phased step S
\* with a start, a completion and a failure pattern.
LibraryPatterns ==
    <<StepPattern_tcl("A", "pa"),
      StepPattern("A", {"Begin pa"}, TRUE, TRUE, FALSE),
      StepPattern_start("S", "Start S"),
      StepPattern_complete("S", "S done"),
      StepPattern_failed("S", "S failed")>>

\* Definitions written the way the handlers' CONFIG writes them
\* (BuildHandler.CONFIG): StepPattern(name, [patterns]), every flag default.
HandlerPatterns ==
    <<StepPatternDefault("A", {"[HDLPROJECT_STEP_SUCCESS] pa",
                               "[HDLPROJECT_STEP_WARNING] pa",
                               "[HDLPROJECT_STEP_ERROR] pa"}),
      StepPatternDefault("S", {"Start S"}),
      StepPatternDefault("S", {"S done"})>>

NoMessage == ParsedMessage("None")

\* No line is given to the parser on its own.
NoLine == line_content = "None" /\ parsed_line = NoMessage

NoLocal ==
    [step_was_current |-> FALSE, result_str |-> "None", failed |-> FALSE,
     total_warnings |-> 0, total_critical_warnings |-> 0, total_errors |-> 0]

Processor ==
    [tcl_step_errors |-> <<>>, timing_failed |-> FALSE,
     has_step_warnings |-> FALSE,
     current_step_name |-> "None", current_step_is_tcl |-> FALSE,
     current_step_warnings |-> 0, current_step_critical_warnings |-> 0,
     current_step_errors |-> 0,
     total_warnings |-> 0, total_critical_warnings |-> 0, total_errors |-> 0]

\* History of the handled lines: whether a [HDLPROJECT_STEP_ERROR] marker of
\* a registered step was handled, the sum of the W counts of the handled
\* [HDLPROJECT_STEP_WARNING] markers, and whether any line was handled that
\* is neither a success marker nor a warning marker with E:0 and W >= 1.
NothingSeen == [error_marker |-> FALSE, warning_sum |-> 0, other |-> FALSE]

see(h, f, m) ==
    LET marker == IF m.type = "STEP_UPDATE" THEN f.marker ELSE "none" IN
    [error_marker |-> h.error_marker \/ marker = "ERROR",
     warning_sum |-> h.warning_sum + (IF marker = "WARNING" THEN count_group(f.w) ELSE 0),
     other |-> \/ h.other
               \/ marker \in {"none", "ERROR"}
               \/ marker = "WARNING" /\ ~(count_group(f.e) = 0 /\ count_group(f.w) >= 1)]

Init ==
    /\ step_patterns \in {LibraryPatterns, HandlerPatterns}
    /\ status_display \in BOOLEAN
    /\ project = ProjectStatus(operation_steps)
    /\ p = Processor
    /\ pc = [t \in Channels |-> "idle"]
    /\ parsed = [t \in Channels |-> NoMessage]
    /\ local = [t \in Channels |-> NoLocal]
    /\ emitted = [t \in Channels |-> 0]
    /\ log_file = [t \in Channels |-> 0]
    /\ main = "start"
    /\ exit_code = -1
    /\ result = [success |-> FALSE, error_lines |-> <<>>]
    /\ seen = NothingSeen
    /\ NoLine
    /\ NoBatch
    /\ NoDisplay
    /\ NoLocks

reset_step_counts(q) ==
    [q EXCEPT !.current_step_warnings = 0,
              !.current_step_critical_warnings = 0,
              !.current_step_errors = 0]

\* process_output, up to the start of the two reader threads.
StartProject ==
    /\ main = "start"
    /\ project' = IF status_display THEN start_project(project) ELSE project
    /\ pc' = [t \in Channels |-> "read"]
    /\ main' = "wait"
    /\ UNCHANGED <<beside_run, line_vars, step_patterns, status_display, p, parsed, local, emitted,
                   log_file, exit_code, result, seen>>

\* The process exits; process.wait() returns its exit code.
ProcessExit ==
    /\ main = "wait"
    /\ \E code \in {0, 1} : exit_code' = code
    /\ main' = "join"
    /\ UNCHANGED <<beside_run, line_vars, step_patterns, status_display, project, p, pc, parsed,
                   local, emitted, log_file, result, seen>>

\* A line the process writes to a channel whose reader has stopped.
UnreadLine(t) ==
    /\ pc[t] = "fault"
    /\ main \in {"wait", "join"}
    /\ emitted[t] < MaxLines(t)
    /\ emitted' = [emitted EXCEPT ![t] = @ + 1]
    /\ UNCHANGED <<beside_run, line_vars, step_patterns, status_display, project, p, pc, parsed,
                   local, log_file, main, exit_code, result, seen>>

\* The stream is at its end: the process has closed it, or has exited, and
\* what it wrote is drained.  The for loop of _process_stream ends and the
\* reader thread with it, whether or not process.wait() has returned.
EndOfStream(t) ==
    /\ pc[t] = "read"
    /\ pc' = [pc EXCEPT ![t] = "done"]
    /\ UNCHANGED <<beside_run, line_vars, step_patterns, status_display, project, p, parsed, local,
                   emitted, log_file, main, exit_code, result, seen>>

Severity == {"ERROR", "CRITICAL_WARNING", "WARNING"}

\* The keyword arguments _complete_step and _finalize_incomplete_step pass
\* to update_project_step, and those _handle_step_update passes at a start.
result_call_kwargs ==
    {"failed", "warning_count", "critical_warning_count", "error_count", "step_result"}

start_call_kwargs == {"failed"}

\* A call raises TypeError when it passes a keyword the method does not
\* declare, AttributeError when the display has no such method.
CallRaises(method, kwargs, params) ==
    \/ method \notin LiveStatusDisplay_methods
    \/ ~(kwargs \subseteq params)

\* The lock section of _complete_step and the result it derives: the
\* processor after it, and the values the display call will carry
\* (step_was_current records whether the completed step was the current one).
complete_step_locked(q, m) ==
    LET tw == IF m.is_tcl_step THEN m.warning_count ELSE q.current_step_warnings
        tcw == IF m.is_tcl_step THEN m.critical_warning_count
               ELSE q.current_step_critical_warnings
        te == IF m.is_tcl_step THEN m.error_count ELSE q.current_step_errors
        counted == IF m.is_tcl_step
                   THEN [q EXCEPT !.total_warnings = @ + tw,
                                  !.total_critical_warnings = @ + tcw,
                                  !.total_errors = @ + te]
                   ELSE q
        cleared == [reset_step_counts(counted) EXCEPT
                       !.current_step_name = "None",
                       !.current_step_is_tcl = FALSE]
        result_str ==
            IF ~m.is_tcl_step /\ (te > 0 \/ m.is_failure) THEN "error"
            ELSE IF ~m.is_tcl_step /\ (tw > 0 \/ tcw > 0) /\ m.step_result = "success"
                 THEN "warning"
                 ELSE m.step_result
        is_step_failure ==
            m.is_failure \/ (~m.is_tcl_step /\ te > 0)
    IN [proc |-> cleared,
        loc |-> [step_was_current |-> q.current_step_name = m.step_name,
                 result_str |-> result_str,
                 failed |-> is_step_failure, total_warnings |-> tw,
                 total_critical_warnings |-> tcw, total_errors |-> te]]

\* _complete_step's test before it notes step warnings.
step_warned(l) ==
    l.result_str = "warning" \/ l.total_warnings > 0 \/ l.total_critical_warnings > 0

\* Where _complete_step goes once the step warnings are settled: to the
\* display call if there is a display, else to the note of a failed marked
\* step, else back to the loop.
after_step_warnings(m) ==
    IF status_display THEN "report"
    ELSE IF m.is_failure /\ m.is_tcl_step THEN "errors"
    ELSE "read"

\* _handle_parsed_message(m), its first lock section and the dispatch on the
\* message type: the read of _current_step_is_tcl under the lock.  A
\* severity message goes on to its own lock section (CountMessage) unless a
\* TCL step is current; a step start, a step result and a timing result go
\* on to theirs (StartStep, CompleteStep, TrackTiming); a tag message only
\* calls the display.
handle_parsed_message(t, m) ==
    /\ CASE m.type \in Severity ->
              IF p.current_step_is_tcl
              THEN /\ pc' = [pc EXCEPT ![t] = "read"]
                   /\ parsed' = [parsed EXCEPT ![t] = NoMessage]
              ELSE /\ pc' = [pc EXCEPT ![t] = "count"]
                   /\ parsed' = [parsed EXCEPT ![t] = m]
         [] m.type = "STEP_UPDATE" /\ m.is_step_start ->
              /\ pc' = [pc EXCEPT ![t] = "start"]
              /\ parsed' = [parsed EXCEPT ![t] = m]
         [] m.type = "STEP_UPDATE" /\ ~m.is_step_start /\ m.step_result # "None" ->
              /\ pc' = [pc EXCEPT ![t] = "complete"]
              /\ parsed' = [parsed EXCEPT ![t] = m]
         [] m.type = "TIMING_RESULT" /\ m.timing_passed # "None" ->
              /\ pc' = [pc EXCEPT ![t] = "timing"]
              /\ parsed' = [parsed EXCEPT ![t] = m]
         [] m.type = "PROJECT_CONTEXT" /\ m.project_context_name # "None" ->
              /\ pc' = [pc EXCEPT ![t] =
                          IF status_display /\ CallRaises("set_project_context_name", {}, {})
                          THEN "fault" ELSE "read"]
              /\ parsed' = [parsed EXCEPT ![t] = NoMessage]
         [] m.type = "BUILD_ARTEFACTS" /\ m.build_artefacts_path # "None" ->
              /\ pc' = [pc EXCEPT ![t] =
                          IF status_display /\ CallRaises("set_build_artefacts_path", {}, {})
                          THEN "fault" ELSE "read"]
              /\ parsed' = [parsed EXCEPT ![t] = NoMessage]
         [] OTHER ->
              /\ pc' = [pc EXCEPT ![t] = "read"]
              /\ parsed' = [parsed EXCEPT ![t] = NoMessage]
    /\ UNCHANGED <<p, local, project>>

\* The part of run_vars no step of a reader's handler touches.
beside_handler == <<step_patterns, status_display, emitted, log_file, main,
                    exit_code, result, seen>>

\* A reader that takes the next line while the severity event of the line
\* before it still waits to be counted.
ReadLineAhead(t) ==
    /\ pc[t] \in {"read", "count"}
    /\ emitted[t] < MaxLines(t)
    /\ emitted' = [emitted EXCEPT ![t] = @ + 1]
    /\ log_file' = [log_file EXCEPT ![t] = @ + 1]
    /\ pc' = [pc EXCEPT ![t] = "handle"]
    /\ \E line \in Lines :
         /\ parsed' = [parsed EXCEPT ![t] = parse_line(step_patterns, line)]
         /\ seen' = see(seen, LineFeatures(line), parse_line(step_patterns, line))
    /\ UNCHANGED <<beside_run, line_vars, step_patterns, status_display, project, p, local,
                   main, exit_code, result>>

\* _process_stream, one turn of its loop up to the call of
\* _handle_parsed_message: the next line of the stream is read, written to
\* the log under the stream's name and parsed (the call of
\* _update_status_display only reaches the display's empty process_output).
\* No lock is taken.  The line's content is chosen when it is read.
ReadLine(t) ==
    /\ pc[t] = "read"
    /\ emitted[t] < MaxLines(t)
    /\ emitted' = [emitted EXCEPT ![t] = @ + 1]
    /\ log_file' = [log_file EXCEPT ![t] = @ + 1]
    /\ pc' = [pc EXCEPT ![t] = "handle"]
    /\ \E line \in Lines :
         /\ parsed' = [parsed EXCEPT ![t] = parse_line(step_patterns, line)]
         /\ seen' = see(seen, LineFeatures(line), parse_line(step_patterns, line))
    /\ UNCHANGED <<beside_run, line_vars, step_patterns, status_display, project, p, local,
                   main, exit_code, result>>

\* _handle_parsed_message, its first lock section and the dispatch: the
\* reader holding a parsed line reads _current_step_is_tcl under the lock
\* and goes where the message's type sends it.
HandleParsedMessage(t) ==
    /\ pc[t] = "handle"
    /\ handle_parsed_message(t, parsed[t])
    /\ UNCHANGED <<beside_run, line_vars, beside_handler>>

\* count_message with an Error also added to the warning counters.
count_message_also_warning(q, type) ==
    CASE type = "ERROR" ->
            [q EXCEPT !.current_step_errors = @ + 1, !.total_errors = @ + 1,
                      !.current_step_warnings = @ + 1, !.total_warnings = @ + 1]
      [] type = "CRITICAL_WARNING" ->
            [q EXCEPT !.current_step_critical_warnings = @ + 1,
                      !.total_critical_warnings = @ + 1]
      [] type = "WARNING" ->
            [q EXCEPT !.current_step_warnings = @ + 1, !.total_warnings = @ + 1]

\* _handle_parsed_message, second lock section of a severity message: the
\* current step's counter and the run total of that severity grow by one.
count_message(q, type) ==
    CASE type = "ERROR" ->
            [q EXCEPT !.current_step_errors = @ + 1, !.total_errors = @ + 1]
      [] type = "CRITICAL_WARNING" ->
            [q EXCEPT !.current_step_critical_warnings = @ + 1,
                      !.total_critical_warnings = @ + 1]
      [] type = "WARNING" ->
            [q EXCEPT !.current_step_warnings = @ + 1, !.total_warnings = @ + 1]

CountMessage(t) ==
    /\ pc[t] = "count"
    /\ p' = count_message(p, parsed[t].type)
    /\ pc' = [pc EXCEPT ![t] = "read"]
    /\ parsed' = [parsed EXCEPT ![t] = NoMessage]
    /\ local' = [local EXCEPT ![t] = NoLocal]
    /\ UNCHANGED <<beside_run, line_vars, step_patterns, status_display, project, emitted, log_file,
                   main, exit_code, result, seen>>

\* The reader is back at the head of its loop.
BackToLoop(t) ==
    /\ parsed' = [parsed EXCEPT ![t] = NoMessage]
    /\ local' = [local EXCEPT ![t] = NoLocal]

\* _handle_step_update at a step start, its lock section: the step becomes
\* the current one and the step counters are reset.
StartStep(t) ==
    /\ pc[t] = "start"
    /\ p' = [reset_step_counts(p) EXCEPT
                !.current_step_name = parsed[t].step_name,
                !.current_step_is_tcl = parsed[t].is_tcl_step]
    /\ IF status_display
       THEN /\ pc' = [pc EXCEPT ![t] = "report"]
            /\ UNCHANGED <<parsed, local>>
       ELSE /\ pc' = [pc EXCEPT ![t] = "read"]
            /\ BackToLoop(t)
    /\ UNCHANGED <<beside_run, line_vars, beside_handler, project>>

\* _complete_step, its first lock section: the step's counts are taken, a
\* marked step's counts are added to the run totals, the current step is
\* cleared.
CompleteStep(t) ==
    LET out == complete_step_locked(p, parsed[t])
        next == IF step_warned(out.loc) THEN "warn"
                ELSE after_step_warnings(parsed[t])
    IN
    /\ pc[t] = "complete"
    /\ p' = out.proc
    /\ pc' = [pc EXCEPT ![t] = next]
    /\ IF next = "read"
       THEN BackToLoop(t)
       ELSE /\ local' = [local EXCEPT ![t] = out.loc]
            /\ UNCHANGED parsed
    /\ UNCHANGED <<beside_run, line_vars, beside_handler, project>>

\* _complete_step, its second lock section: the run has step warnings.
NoteStepWarnings(t) ==
    LET next == after_step_warnings(parsed[t]) IN
    /\ pc[t] = "warn"
    /\ p' = [p EXCEPT !.has_step_warnings = TRUE]
    /\ pc' = [pc EXCEPT ![t] = next]
    /\ IF next = "read" THEN BackToLoop(t) ELSE UNCHANGED <<parsed, local>>
    /\ UNCHANGED <<beside_run, line_vars, beside_handler, project>>

\* The update_project_step call of _handle_step_update or _complete_step on
\* the display.  An exception raised by the call leaves _process_stream's
\* loop through its except clause; after the call of a failed marked step
\* the note of the failure is still to come.
ReportStep(t) ==
    LET m == parsed[t]
        l == local[t]
        kwargs == IF m.is_step_start THEN start_call_kwargs ELSE result_call_kwargs
        raises == CallRaises("update_project_step", kwargs, update_project_step_params)
        next == IF raises THEN "fault"
                ELSE IF ~m.is_step_start /\ m.is_failure /\ m.is_tcl_step
                     THEN "errors" ELSE "read"
    IN
    /\ pc[t] = "report"
    /\ pc' = [pc EXCEPT ![t] = next]
    /\ project' =
         IF raises THEN project
         ELSE IF m.is_step_start
              THEN update_project_step(project, m.step_name, FALSE, 0, 0, "None")
              ELSE update_project_step(project, m.step_name, l.failed,
                                       l.total_warnings, l.total_errors,
                                       l.result_str)
    /\ IF next = "errors" THEN UNCHANGED <<parsed, local>> ELSE BackToLoop(t)
    /\ UNCHANGED <<beside_run, line_vars, beside_handler, p>>

\* _complete_step, its last lock section: the failure of a marked step is
\* noted for the success decision.
AppendTclStepError(t) ==
    /\ pc[t] = "errors"
    /\ p' = [p EXCEPT !.tcl_step_errors =
                Append(@, "TCL step failed: " \o parsed[t].step_name)]
    /\ pc' = [pc EXCEPT ![t] = "read"]
    /\ BackToLoop(t)
    /\ UNCHANGED <<beside_run, line_vars, beside_handler, project>>

\* _handle_timing_result: the lock section that tracks a timing failure,
\* then the set_extra_info call on the display.
TrackTiming(t) ==
    /\ pc[t] = "timing"
    /\ p' = IF parsed[t].timing_passed = "False"
            THEN [p EXCEPT !.timing_failed = TRUE] ELSE p
    /\ pc' = [pc EXCEPT ![t] =
                IF status_display /\ CallRaises("set_extra_info", {}, {})
                THEN "fault" ELSE "read"]
    /\ BackToLoop(t)
    /\ UNCHANGED <<beside_run, line_vars, beside_handler, project>>

\* _finalize_incomplete_step(process_failed), run by process_output once the
\* process has exited and both reader threads are joined.  The outcome is
\* the processor and display after it and whether the display call raised.
finalize_incomplete_step(q, ps, display, process_failed) ==
    IF q.current_step_name = "None" THEN [proc |-> q, disp |-> ps, raised |-> FALSE]
    ELSE IF q.current_step_is_tcl
    THEN [proc |-> [q EXCEPT !.current_step_name = "None",
                             !.current_step_is_tcl = FALSE],
          disp |-> ps, raised |-> FALSE]
    ELSE
      LET warnings == q.current_step_warnings
          critical_warnings == q.current_step_critical_warnings
          errors == q.current_step_errors
          cleared == [reset_step_counts(q) EXCEPT !.current_step_name = "None",
                                                  !.current_step_is_tcl = FALSE]
          failed == process_failed \/ errors > 0
          result_str == IF failed THEN "error"
                        ELSE IF warnings > 0 \/ critical_warnings > 0 THEN "warning"
                        ELSE "success"
          raises == display /\ CallRaises("update_project_step", result_call_kwargs,
                                          update_project_step_params)
      IN [proc |-> cleared,
          disp |-> IF display /\ ~raises
                   THEN update_project_step(ps, q.current_step_name, failed,
                                            warnings, errors, result_str)
                   ELSE ps,
          raised |-> raises]

\* Only one of the two reader threads is joined.
JoinedEither == \E t \in Channels : pc[t] \in {"done", "fault"}

\* stdout_thread.join(); stderr_thread.join(): both readers have ended.
Joined == \A t \in Channels : pc[t] \in {"done", "fault"}

FinalizeIncompleteStep ==
    LET out == finalize_incomplete_step(p, project, status_display, exit_code # 0) IN
    /\ main = "join"
    /\ Joined
    /\ p' = out.proc
    /\ project' = out.disp
    /\ main' = IF out.raised THEN "raised" ELSE "finalized"
    /\ UNCHANGED <<beside_run, line_vars, step_patterns, status_display, pc, parsed, local, emitted,
                   log_file, exit_code, result, seen>>

\* process_output after the finalize: the success decision.
determine_success(q, code) ==
    /\ code = 0
    /\ Len(q.tcl_step_errors) = 0
    /\ ~(q.total_errors > 0)
    /\ ~q.timing_failed

\* process_output from the success decision to its return: the display's
\* complete_project and the returned (success, error_lines).
DetermineSuccess ==
    LET success == determine_success(p, exit_code) IN
    /\ main = "finalized"
    /\ project' = IF status_display THEN complete_project(project, success)
                  ELSE project
    /\ result' = [success |-> success, error_lines |-> p.tcl_step_errors]
    /\ main' = "returned"
    /\ UNCHANGED <<beside_run, line_vars, step_patterns, status_display, p, pc, parsed, local,
                   emitted, log_file, exit_code, seen>>

Next ==
    \/ StartProject
    \/ ProcessExit
    \/ FinalizeIncompleteStep
    \/ DetermineSuccess
    \/ \E t \in Channels :
         \/ ReadLine(t)
         \/ HandleParsedMessage(t)
         \/ UnreadLine(t)
         \/ EndOfStream(t)
         \/ CountMessage(t)
         \/ StartStep(t)
         \/ CompleteStep(t)
         \/ NoteStepWarnings(t)
         \/ ReportStep(t)
         \/ AppendTclStepError(t)
         \/ TrackTiming(t)

Spec == Init /\ [][Next]_vars

TypeOK ==
    /\ status_display \in BOOLEAN
    /\ main \in {"start", "wait", "join", "finalized", "raised", "returned"}
    /\ exit_code \in {-1, 0, 1}
    /\ \A t \in Channels :
         /\ pc[t] \in {"idle", "read", "handle", "count", "start", "complete", "warn",
                     "report", "errors", "timing", "done", "fault"}
         /\ log_file[t] \in 0..MaxLines(t)
         /\ emitted[t] \in 0..MaxLines(t)

(***************************************************************************)
(* Properties                                                              *)
(***************************************************************************)
Returned == main = "returned"

\* process_output is over: it returned a result or left with an exception.
Over == main \in {"returned", "raised"}

\* C1: when process_output returns, success is false if and only if a
\* marked-step error marker was handled, or the accumulated error total is
\* greater than 0, or a timing result reported failure, or the exit code is
\* nonzero.
C1_SuccessIffNoFailureCause ==
    Returned =>
        (~result.success <=>
            \/ seen.error_marker
            \/ p.total_errors > 0
            \/ p.timing_failed
            \/ exit_code # 0)

\* C2: with the step definitions the handlers register, a run in which a
\* step-error marker of a registered step was handled returns success = false,
\* whatever the exit code.
C2_HandlerErrorMarkerFails ==
    (Returned /\ step_patterns = HandlerPatterns /\ seen.error_marker)
        => ~result.success

\* C3: a run that exits with code 0 after handling only success markers and
\* at least one warning marker [W:n E:0], n >= 1, returns success = true,
\* its warning total is the sum of the markers' n, and its display state
\* after complete_project is Warning.
C3_WarningMarkersGiveWarningRun ==
    (Returned /\ exit_code = 0 /\ ~seen.other /\ seen.warning_sum >= 1)
        => /\ result.success
           /\ p.total_warnings = seen.warning_sum
           /\ status_display => project.overall_state = "warning"

Counters(q) ==
    <<q.current_step_warnings, q.current_step_critical_warnings,
      q.current_step_errors, q.total_warnings, q.total_critical_warnings,
      q.total_errors>>

\* Reader t takes the step that reports a step result to the display.
ReportsResult(t) ==
    /\ pc[t] = "report"
    /\ pc'[t] # "report"
    /\ ~parsed[t].is_step_start

\* The state of the display's step called step_name.
StateOf(ps, step_name) == ps.steps[StepIndex(ps.steps, step_name) + 1].state

\* C4: while a marked step is the run's current step, handling an ordinary
\* Error, Warning or CriticalWarning line changes neither the step's counters
\* nor the run's totals.
C4_MarkedStepSuppressesSeverity ==
    [][\A t \in Channels :
          (p.current_step_is_tcl /\ pc[t] = "count" /\ pc'[t] = "read")
              => Counters(p') = Counters(p)]_vars

\* C5: a phased step entered via its start pattern that saw n >= 1 plain
\* warnings, no error and no failure pattern before its completion pattern
\* ends in state Warning with warning count n.
C5_PhasedWarningsGiveWarning ==
    [][\A t \in Channels :
          (/\ ReportsResult(t)
           /\ status_display
           /\ ~parsed[t].is_tcl_step /\ ~parsed[t].is_failure
           /\ local[t].step_was_current
           /\ local[t].total_warnings >= 1 /\ local[t].total_errors = 0)
              => LET k == StepIndex(project.steps, parsed[t].step_name) + 1 IN
                 /\ project'.steps[k].state = "warning"
                 /\ project'.steps[k].warning_count = local[t].total_warnings]_vars

\* C6: on a phased step's result event the step named by the event is marked
\* Failed if the event is a failure-pattern match or the step accumulated an
\* error, Warning if it accumulated no error and at least one warning or
\* critical warning, Completed otherwise.
C6_PhasedResultState ==
    [][\A t \in Channels :
          (ReportsResult(t) /\ status_display /\ ~parsed[t].is_tcl_step)
              => StateOf(project', parsed[t].step_name) =
                    IF parsed[t].is_failure \/ local[t].total_errors > 0
                    THEN "failed"
                    ELSE IF local[t].total_warnings > 0
                            \/ local[t].total_critical_warnings > 0
                         THEN "warning" ELSE "completed"]_vars

\* C7: the marker [HDLPROJECT_STEP_ERROR] pa [W:2 E:1] of marked step A is
\* classified as a step result with result error, warning count 2 and error
\* count 1, and reporting a marked step's error result puts the step named
\* by the marker into state Failed.
C7_ErrorMarkerFailsItsStep ==
    /\ [](LET m == parse_line(LibraryPatterns, "[HDLPROJECT_STEP_ERROR] pa [W:2 E:1]") IN
            /\ m.type = "STEP_UPDATE" /\ m.step_name = "A" /\ ~m.is_step_start
            /\ m.step_result = "error" /\ m.warning_count = 2 /\ m.error_count = 1)
    /\ [][\A t \in Channels :
            (/\ ReportsResult(t) /\ status_display
             /\ parsed[t].is_tcl_step /\ parsed[t].step_result = "error")
                => StateOf(project', parsed[t].step_name) = "failed"]_vars

\* C8: after the finalize no step of the run is Running; a step still Running
\* at the finalize is closed as Failed if the exit code was nonzero or it had
\* accumulated errors, as Warning if it had warnings and no errors, else as
\* Completed.
C8_FinalizeClosesRunningSteps ==
    /\ [](Over /\ status_display =>
            \A k \in 1..Len(project.steps) : project.steps[k].state # "running")
    /\ [][(/\ main = "join" /\ main' # "join" /\ status_display
           /\ p.current_step_name # "None" /\ ~p.current_step_is_tcl
           /\ StateOf(project, p.current_step_name) = "running")
              => StateOf(project', p.current_step_name) =
                    IF exit_code # 0 \/ p.current_step_errors > 0 THEN "failed"
                    ELSE IF p.current_step_warnings > 0
                            \/ p.current_step_critical_warnings > 0
                         THEN "warning" ELSE "completed"]_vars
    /\ [][(main = "finalized" /\ main' = "returned" /\ status_display)
              => \A k \in 1..Len(project.steps) :
                    project.steps[k].state = "running"
                       => project'.steps[k].state =
                             IF exit_code # 0 THEN "failed" ELSE "completed"]_vars

\* The run's finalize invoked once more: _finalize_incomplete_step, then the
\* success decision and the display's complete_project.
finalize_again(q, ps, display, code) ==
    LET out == finalize_incomplete_step(q, ps, display, code # 0) IN
    [proc |-> out.proc,
     disp |-> IF display /\ ~out.raised
              THEN complete_project(out.disp, determine_success(out.proc, code))
              ELSE out.disp]

\* C9: finalize is idempotent: invoked a second time it leaves every step
\* state, per-step count and run total as the first call left them.
C9_FinalizeIdempotent ==
    Over => LET again == finalize_again(p, project, status_display, exit_code) IN
            /\ again.proc = p
            /\ again.disp = project

\* C10: every line the process wrote to a channel has exactly one log record
\* under that channel's name, also the lines written after a line whose
\* handling raised.
C10_EveryLineLogged ==
    Over => \A t \in Channels : log_file[t] = emitted[t]

\* Some reader's loop was left through its except clause.
ReaderFault == \E t \in Channels : pc[t] = "fault"

\* C11: when handling a line raised inside a reader loop, process_output is
\* not left by an exception: it ends by returning (success, error_lines).
C11_ReaderFaultContained ==
    (Over /\ ReaderFault) => Returned

\* Reader t takes a step of its loop: it reads and logs a line, or takes a
\* step of the handling of the line it read.
ReaderStep(t) ==
    /\ pc[t] \in {"read", "handle", "count", "start", "complete", "warn",
                  "report", "errors", "timing"}
    /\ pc'[t] # pc[t] \/ log_file'[t] # log_file[t]

Finalizing == main \in {"finalized", "raised", "returned"}

\* C12: the finalize, the success decision and the return happen only after
\* the process has exited and both readers have ended; the run's tracking
\* state is changed only by a step of a reader or, after both have ended, by
\* the one finalize; once the finalize has run no reader logs or applies a
\* line.
C12_FinalizeAfterReaders ==
    /\ [](Finalizing => exit_code # -1 /\ Joined)
    /\ [][p' # p =>
            \/ \E t \in Channels : ReaderStep(t) /\ ~Finalizing
            \/ main = "join" /\ Joined /\ Finalizing']_vars
    /\ [][Finalizing => /\ p' = p /\ pc' = pc /\ log_file' = log_file
                        /\ main' # "join"]_vars

C12_Witness ==
    /\ Returned
    /\ \A t \in Channels : pc[t] = "done" /\ log_file[t] >= 1
    /\ p.total_warnings >= 1

\* Reader t holds a line it has logged and whose event it has not yet
\* applied to the end.
Pending(t) ==
    pc[t] \in {"handle", "count", "start", "complete", "warn", "report",
               "errors", "timing"}

\* Reader t's next step, whichever it is.
ReaderTurn(t) ==
    \/ ReadLine(t)
    \/ HandleParsedMessage(t)
    \/ CountMessage(t)
    \/ StartStep(t)
    \/ CompleteStep(t)
    \/ NoteStepWarnings(t)
    \/ ReportStep(t)
    \/ AppendTclStepError(t)
    \/ TrackTiming(t)

\* C13: within one channel the log records are written one at a time in the
\* order of the channel's lines; a line's record is written only when the
\* event of every earlier line of the channel has been applied to the end,
\* and the event a reader applies is always that of the last line logged
\* on its channel, so the earlier line's record and event come before the
\* later line's.  Between the two channels nothing is ordered: whatever the
\* other channel's reader is doing, a reader with a line to read or an
\* event to apply can take its next step.
C13_ChannelOrder ==
    /\ [][\A t \in Channels :
             log_file'[t] # log_file[t] =>
                 /\ log_file[t] = emitted[t]
                 /\ log_file'[t] = log_file[t] + 1
                 /\ emitted'[t] = log_file'[t]]_vars
    /\ [][\A t \in Channels :
             log_file'[t] # log_file[t] =>
                 /\ ~Pending(t) /\ parsed[t] = NoMessage
                 /\ Pending(t)' /\ parsed'[t] # NoMessage]_vars
    /\ [][\A t \in Channels :
             parsed'[t] # parsed[t] =>
                 \/ log_file'[t] # log_file[t]
                 \/ Pending(t) /\ ~Pending(t)' /\ parsed'[t] = NoMessage]_vars
    /\ [][\A t \in Channels :
             (p' # p /\ pc'[t] # pc[t] /\ ~Finalizing') =>
                 Pending(t) /\ parsed[t] # NoMessage]_vars
    /\ [](\A t \in Channels :
             (Pending(t) \/ (pc[t] = "read" /\ emitted[t] < MaxLines(t)))
                 => ENABLED ReaderTurn(t))

\* The stdout reader has logged its second line and holds its event while
\* the stderr reader still holds the event of its first line, a warning seen
\* before a marked step began and not yet counted: records and events of the
\* two channels interleave.
C13_Witness ==
    /\ log_file["STDOUT"] = 2 /\ pc["STDOUT"] = "handle"
    /\ log_file["STDERR"] = 1 /\ pc["STDERR"] = "count"
    /\ p.current_step_is_tcl

(***************************************************************************)
(* BaseHandler.execute (handlers/base/handler.py): a batch of runs, one    *)
(* per project, executed sequentially or on a ThreadPoolExecutor.          *)
(***************************************************************************)
\* Bounds of the batch: projects, options.cores, the system's logical cores.
MaxRuns == 3
MaxCoresPerRun == 2
MaxTotalCores == 3

\* options.cores = 0 stands for an operation without a cores option.
Handlers(max_runs, max_cores_per_run, max_total_cores) ==
    [interactive : BOOLEAN, supports_parallel : BOOLEAN,
     projects : 1..max_runs, cores : 0..max_cores_per_run,
     total_cores : 1..max_total_cores]

min(a, b) == IF a <= b THEN a ELSE b

max(a, b) == IF a >= b THEN a ELSE b

\* _calculate_max_workers: the fallback when the operation has no cores option.
default_max == 4

\* The worker bound without the cap at the number of projects.
calculate_max_workers_uncapped(cores, total_cores, projects) ==
    IF cores # 0 THEN max(1, total_cores \div cores) ELSE default_max

calculate_max_workers(cores, total_cores, projects) ==
    IF cores # 0
    THEN min(max(1, total_cores \div cores), projects)
    ELSE min(default_max, projects)

should_parallelise(supports_parallel, projects) ==
    supports_parallel /\ projects > 1

\* A handler that raises out of a failed run in either mode.
raises_always(interactive) == TRUE

\* The methods raise out of a failed run exactly when not interactive.
raises_on_failure(interactive) == ~interactive

Projects == 1..handler.projects

NoRunYet == [state |-> "pending", outcome |-> "None"]

Batch ==
    [phase |-> "start", max_workers |-> 0, next |-> 1,
     results |-> <<>>, errors |-> <<>>]

\* The run alone is not modelled under a batch.
NoRun ==
    /\ step_patterns = <<>> /\ status_display = FALSE
    /\ project = ProjectStatus(<<>>) /\ p = Processor
    /\ pc = [t \in Channels |-> "idle"]
    /\ parsed = [t \in Channels |-> NoMessage]
    /\ local = [t \in Channels |-> NoLocal]
    /\ emitted = [t \in Channels |-> 0]
    /\ log_file = [t \in Channels |-> 0]
    /\ main = "start" /\ exit_code = -1
    /\ result = [success |-> FALSE, error_lines |-> <<>>]
    /\ seen = NothingSeen
    /\ NoLine

BatchInit ==
    /\ handler \in Handlers(MaxRuns, MaxCoresPerRun, MaxTotalCores)
    /\ batch = Batch
    /\ run = [r \in 1..MaxRuns |-> NoRunYet]
    /\ NoRun
    /\ NoDisplay
    /\ NoLocks

\* execute, step 7: sequential or parallel, and the worker bound.
Decide ==
    /\ batch.phase = "start"
    /\ batch' = IF should_parallelise(handler.supports_parallel, handler.projects)
                THEN [batch EXCEPT
                         !.phase = "submitting",
                         !.max_workers = calculate_max_workers(
                             handler.cores, handler.total_cores, handler.projects)]
                ELSE [batch EXCEPT !.phase = "sequential"]
    /\ UNCHANGED <<handler, run, beside_batch>>

Finished(outcome) == [state |-> "finished", outcome |-> outcome]

\* _execute_sequential when project r failed: its result is False, and the
\* error leaves the loop unless the handler is interactive.
seq_failed(b, r, error) ==
    IF raises_on_failure(handler.interactive)
    THEN [b EXCEPT !.results = (r :> FALSE) @@ @,
                   !.errors = Append(@, error), !.phase = "raised"]
    ELSE [b EXCEPT !.results = (r :> FALSE) @@ @, !.next = @ + 1]

\* _execute_sequential: the loop reaches the next project and starts its
\* preparation (create_directories, resolve_for_operation, prepare).
SeqBegin ==
    /\ batch.phase = "sequential"
    /\ batch.next <= handler.projects
    /\ run[batch.next].state = "pending"
    /\ run' = [run EXCEPT ![batch.next].state = "preparing"]
    /\ UNCHANGED <<handler, batch, beside_batch>>

\* The preparation ends: execute_single is entered, or the preparation raised.
SeqPrepared ==
    LET r == batch.next IN
    /\ batch.phase = "sequential"
    /\ r <= handler.projects
    /\ run[r].state = "preparing"
    /\ \/ /\ run' = [run EXCEPT ![r].state = "executing"]
          /\ UNCHANGED batch
       \/ /\ run' = [run EXCEPT ![r] = Finished("raised")]
          /\ batch' = seq_failed(batch, r, [type |-> "Exception", names |-> {}])
    /\ UNCHANGED <<handler, beside_batch>>

\* execute_single returns success or failure, or raises.
SeqExecuted ==
    LET r == batch.next IN
    /\ batch.phase = "sequential"
    /\ r <= handler.projects
    /\ run[r].state = "executing"
    /\ \/ /\ run' = [run EXCEPT ![r] = Finished("success")]
          /\ batch' = [batch EXCEPT !.results = (r :> TRUE) @@ @, !.next = @ + 1]
       \/ /\ run' = [run EXCEPT ![r] = Finished("failure")]
          /\ batch' = seq_failed(batch, r, [type |-> "RuntimeError", names |-> {r}])
       \/ /\ run' = [run EXCEPT ![r] = Finished("raised")]
          /\ batch' = seq_failed(batch, r, [type |-> "Exception", names |-> {}])
    /\ UNCHANGED <<handler, beside_batch>>

SeqReturn ==
    /\ batch.phase = "sequential"
    /\ batch.next > handler.projects
    /\ batch' = [batch EXCEPT !.phase = "returned"]
    /\ UNCHANGED <<handler, run, beside_batch>>

\* _execute_parallel: executor.submit for the next project.
Submit ==
    /\ batch.phase = "submitting"
    /\ run[batch.next].state = "pending"
    /\ run' = [run EXCEPT ![batch.next].state = "queued"]
    /\ batch' = [batch EXCEPT
                    !.next = @ + 1,
                    !.phase = IF batch.next = handler.projects
                              THEN "collecting" ELSE @]
    /\ UNCHANGED <<handler, beside_batch>>

Parallel == batch.phase \in {"submitting", "collecting"}

\* Runs a worker of the pool is executing.
InFlight == {r \in Projects : Parallel /\ run[r].state \in {"preparing", "executing"}}

\* A pool that starts one worker more than max_workers.
worker_free_one_more(in_flight, max_workers) == Cardinality(in_flight) <= max_workers

\* Whether the pool has a worker that is not executing a run.
worker_free(in_flight, max_workers) == Cardinality(in_flight) < max_workers

\* ThreadPoolExecutor: a free worker takes the oldest queued work item and
\* enters _execute_single_project, which starts the run's preparation.
Admit(r) ==
    /\ Parallel
    /\ run[r].state = "queued"
    /\ \A q \in Projects : q < r => run[q].state # "queued"
    /\ worker_free(InFlight, batch.max_workers)
    /\ run' = [run EXCEPT ![r].state = "preparing"]
    /\ UNCHANGED <<handler, batch, beside_batch>>

\* _execute_single_project: the preparation ends, or raises and the except
\* clause returns False.
ParPrepared(r) ==
    /\ Parallel
    /\ run[r].state = "preparing"
    /\ \/ run' = [run EXCEPT ![r].state = "executing"]
       \/ run' = [run EXCEPT ![r] = Finished("raised")]
    /\ UNCHANGED <<handler, batch, beside_batch>>

\* _execute_single_project: execute_single returns or raises; the worker is free.
ParExecuted(r) ==
    /\ Parallel
    /\ run[r].state = "executing"
    /\ \E outcome \in {"success", "failure", "raised"} :
          run' = [run EXCEPT ![r] = Finished(outcome)]
    /\ UNCHANGED <<handler, batch, beside_batch>>

\* What _execute_single_project returned for a finished run.
future_result(r) == run[r].outcome = "success"

\* _execute_parallel: as_completed yields a finished future.
Collect(r) ==
    /\ batch.phase = "collecting"
    /\ r \in Projects
    /\ run[r].state = "finished"
    /\ r \notin DOMAIN batch.results
    /\ batch' = [batch EXCEPT !.results = (r :> future_result(r)) @@ @]
    /\ UNCHANGED <<handler, run, beside_batch>>

failed_projects(results) == {name \in DOMAIN results : ~results[name]}

\* _execute_parallel after the pool is shut down: raise or return.
ParFinish ==
    /\ batch.phase = "collecting"
    /\ DOMAIN batch.results = Projects
    /\ batch' = IF raises_on_failure(handler.interactive)
                   /\ failed_projects(batch.results) # {}
                THEN [batch EXCEPT
                         !.phase = "raised",
                         !.errors = Append(@, [type |-> "RuntimeError",
                                               names |-> failed_projects(batch.results)])]
                ELSE [batch EXCEPT !.phase = "returned"]
    /\ UNCHANGED <<handler, run, beside_batch>>

BatchNext ==
    \/ Decide
    \/ SeqBegin
    \/ SeqPrepared
    \/ SeqExecuted
    \/ SeqReturn
    \/ Submit
    \/ ParFinish
    \/ \E r \in 1..MaxRuns :
         \/ Admit(r)
         \/ ParPrepared(r)
         \/ ParExecuted(r)
         \/ Collect(r)

BatchSpec == BatchInit /\ [][BatchNext]_vars

BatchTypeOK ==
    /\ batch.phase \in {"start", "sequential", "submitting", "collecting",
                        "returned", "raised"}
    /\ batch.max_workers \in 0..MaxRuns
    /\ DOMAIN batch.results \subseteq Projects
    /\ \A r \in 1..MaxRuns :
         /\ run[r].state \in {"pending", "queued", "preparing", "executing", "finished"}
         /\ run[r].outcome \in {"None", "success", "failure", "raised"}

\* The pool's workers take queued runs, and a run that was started ends.
BatchFairSpec ==
    /\ BatchSpec
    /\ WF_vars(\E r \in 1..MaxRuns : Admit(r))
    /\ \A r \in 1..MaxRuns : WF_vars(ParPrepared(r)) /\ WF_vars(ParExecuted(r))

\* _calculate_max_workers and the sequential/parallel decision on their own,
\* over a wider range of batches.
MaxRunCount == 6
MaxCost == 3
MaxCores == 8

WorkersInit ==
    /\ handler \in Handlers(MaxRunCount, MaxCost, MaxCores)
    /\ batch = Batch
    /\ run = [r \in 1..MaxRuns |-> NoRunYet]
    /\ NoRun
    /\ NoDisplay
    /\ NoLocks

WorkersNext == Decide

WorkersSpec == WorkersInit /\ [][WorkersNext]_vars

(***************************************************************************)
(* Properties of a batch                                                   *)
(***************************************************************************)
\* _execute_sequential / _execute_parallel has returned or raised.
BatchOver == batch.phase \in {"returned", "raised"}

\* Run r ended without success.
Failed(r) == run[r].state = "finished" /\ run[r].outcome # "success"

\* C14: when the executing method is over, in either mode and either
\* execution, every submitted run has been executed to its end.
C14_EveryRunExecuted ==
    BatchOver => \A r \in Projects : run[r].state = "finished"

\* C15: in batch mode, when a run of the batch failed, exactly one error is
\* raised, it names every failed run, and no error is raised while a
\* submitted run has not finished.
C15_BatchRaisesOnceAtEnd ==
    ~handler.interactive =>
        /\ batch.errors # <<>> => \A r \in Projects : run[r].state = "finished"
        /\ (BatchOver /\ \E r \in Projects : Failed(r)) =>
               /\ batch.phase = "raised"
               /\ Len(batch.errors) = 1
               /\ batch.errors[1].names = {r \in Projects : Failed(r)}

\* C16: in interactive mode no failed run makes the executing method raise,
\* and the returned results have one entry per submitted run, true exactly
\* for the runs that succeeded.
C16_InteractiveNeverRaises ==
    handler.interactive =>
        /\ batch.phase # "raised"
        /\ batch.errors = <<>>
        /\ batch.phase = "returned" =>
               /\ DOMAIN batch.results = Projects
               /\ \A r \in Projects :
                     batch.results[r] = (run[r].outcome = "success")

C16_Witness ==
    /\ handler.interactive
    /\ batch.phase = "returned"
    /\ \E r1, r2, r3 \in Projects :
          /\ run[r1].outcome = "success"
          /\ run[r2].outcome = "failure"
          /\ run[r3].outcome = "raised"

\* C17: a run's preparation starts only when that run is about to be
\* spawned (sequentially: no other run is in preparation or executing; in
\* parallel: a free worker takes it from the queue), and a preparation that
\* raises leaves every other run as it is, ends the batch only if no other
\* run is unfinished, and gives its run the result false.
C17_PreparationPerRun ==
    /\ [][\A r \in Projects :
            (run[r].state # "preparing" /\ run'[r].state = "preparing") =>
                IF Parallel
                THEN run[r].state = "queued"
                     /\ worker_free(InFlight, batch.max_workers)
                ELSE \A q \in Projects \ {r} :
                        run[q].state \in {"pending", "finished"}]_vars
    /\ [][\A r \in Projects :
            (run[r].state = "preparing" /\ run'[r] = Finished("raised")) =>
                /\ \A q \in Projects \ {r} : run'[q] = run[q]
                /\ batch'.phase = "raised" =>
                      \A q \in Projects : run'[q].state = "finished"
                /\ r \in DOMAIN batch'.results => ~batch'.results[r]]_vars
    /\ [](batch.phase = "returned" =>
            \A r \in Projects : run[r].outcome = "raised" => ~batch.results[r])

\* floor(a / b) for b > 0, by its defining inequalities.
Floor(a, b) == CHOOSE k \in 0..a : k * b <= a /\ a < (k + 1) * b

\* C18: the batch runs sequentially iff the operation does not support
\* parallel runs or there is a single run; otherwise max_workers is
\* min(max(1, floor(total cores / cores per run)), run count) when a
\* per-run core cost is given and min(4, run count) when not: 4 for cost 2,
\* 8 cores, 6 runs; 3 for 3 runs; always between 1 and the run count.
C18_WorkerBound ==
    LET n == handler.projects
        quota == IF handler.cores # 0
                 THEN Floor(handler.total_cores, handler.cores) ELSE 4
        atleast1 == IF quota < 1 THEN 1 ELSE quota
        expected == IF atleast1 > n THEN n ELSE atleast1
    IN batch.phase # "start" =>
        /\ batch.phase = "sequential" <=> (~handler.supports_parallel \/ n = 1)
        /\ batch.phase # "sequential" =>
              /\ batch.max_workers = expected
              /\ batch.max_workers >= 1 /\ batch.max_workers <= n
              /\ (handler.cores = 2 /\ handler.total_cores = 8 /\ n = 6)
                    => batch.max_workers = 4
              /\ (handler.cores = 2 /\ handler.total_cores = 8 /\ n = 3)
                    => batch.max_workers = 3

C18_Witness ==
    /\ batch.phase = "submitting"
    /\ handler.cores = 2 /\ handler.total_cores = 8 /\ handler.projects = 6
    /\ batch.max_workers = 4

\* C19: in a parallel batch the runs in flight never exceed max_workers, a
\* queued run leaves the queue only when a worker is free, and every queued
\* run is eventually admitted.
C19_InFlightBounded ==
    /\ [](Cardinality(InFlight) <= batch.max_workers)
    /\ [][\A r \in Projects :
            (run[r].state = "queued" /\ run'[r].state # "queued") =>
                /\ Cardinality(InFlight) < batch.max_workers
                /\ run'[r].state = "preparing"]_vars
    /\ \A r \in 1..MaxRuns :
          (run[r].state = "queued") ~> (run[r].state \in {"preparing", "executing", "finished"})

\* Every worker is busy while a run waits in the queue.
C19_Witness ==
    /\ batch.max_workers = 2
    /\ Cardinality(InFlight) = 2
    /\ \E r \in Projects : run[r].state = "queued"

(***************************************************************************)
(* One line through the parser and the processor: the stdout reader of a   *)
(* run without a display takes a single line, whose text is kept, and      *)
(* handles it to the end while the stderr reader handles lines of its own. *)
(***************************************************************************)
\* The processor as a line can find it: no step current, the phased step S
\* or the marked step A current (a step is only ever current under
\* definitions that declare a start), one warning counted so far or none.
ProcessorsAtLine(patterns) ==
    {[Processor EXCEPT !.current_step_name = cur[1],
                       !.current_step_is_tcl = cur[2],
                       !.current_step_warnings = w,
                       !.total_warnings = w] :
        cur \in {c \in {<<"None", FALSE>>, <<"S", FALSE>>, <<"A", TRUE>>} :
                    c[1] # "None" =>
                       \E i \in 1..Len(patterns) :
                          /\ patterns[i].is_start
                          /\ patterns[i].step_name = c[1]
                          /\ patterns[i].is_tcl_step = c[2]},
        w \in 0..1}

ParserInit ==
    /\ step_patterns \in {LibraryPatterns, HandlerPatterns}
    /\ status_display = FALSE
    /\ project = ProjectStatus(operation_steps)
    /\ p \in ProcessorsAtLine(step_patterns)
    /\ pc = [t \in Channels |-> "read"]
    /\ parsed = [t \in Channels |-> NoMessage]
    /\ local = [t \in Channels |-> NoLocal]
    /\ emitted = [t \in Channels |-> 0]
    /\ log_file = [t \in Channels |-> 0]
    /\ main = "wait"
    /\ exit_code = -1
    /\ result = [success |-> FALSE, error_lines |-> <<>>]
    /\ seen = NothingSeen
    /\ NoLine
    /\ NoBatch
    /\ NoDisplay
    /\ NoLocks

\* _process_stream, one turn of its loop up to the call of
\* _handle_parsed_message, on a line whose text is kept.
ParseLine(t) ==
    /\ pc[t] = "read"
    /\ line_content = "None"
    /\ emitted' = [emitted EXCEPT ![t] = @ + 1]
    /\ log_file' = [log_file EXCEPT ![t] = @ + 1]
    /\ pc' = [pc EXCEPT ![t] = "handle"]
    /\ \E line \in ParserLines :
         /\ line_content' = line
         /\ parsed_line' = parse_line(step_patterns, line)
         /\ parsed' = [parsed EXCEPT ![t] = parse_line(step_patterns, line)]
         /\ seen' = see(seen, LineFeatures(line), parse_line(step_patterns, line))
    /\ UNCHANGED <<beside_run, step_patterns, status_display, project, p, local,
                   main, exit_code, result>>

\* The reader of stdout takes the one line whose text is kept; the reader of
\* stderr runs beside it on lines of its own.
ParserNext ==
    \/ ParseLine("STDOUT")
    \/ ReadLine("STDERR")
    \/ \E t \in Channels :
         \/ HandleParsedMessage(t)
         \/ CountMessage(t)
         \/ StartStep(t)
         \/ CompleteStep(t)
         \/ NoteStepWarnings(t)
         \/ AppendTclStepError(t)
         \/ TrackTiming(t)

ParserSpec == ParserInit /\ [][ParserNext]_vars

(***************************************************************************)
(* Properties of a line                                                    *)
(***************************************************************************)
\* The reader takes the line.
Taken == line_content = "None" /\ line_content' # "None"

\* The line matches the error heuristic, contains no false-positive
\* substring and matches no pattern of a marked step.
ErrorLine(patterns, line) ==
    LET f == LineFeatures(line)
    IN /\ f.err /\ ~f.fp
       /\ \A i \in 1..Len(patterns) :
             patterns[i].is_tcl_step => ~Matches(patterns[i], f)

\* The line matches the error heuristic and nothing that parse_line tests
\* before it: no false-positive substring, no HDLPROJECT tag, no registered
\* step pattern.
PlainErrorLine(patterns, line) ==
    LET f == LineFeatures(line)
    IN /\ f.err /\ ~f.fp /\ f.tag = "none"
       /\ \A i \in 1..Len(patterns) : ~Matches(patterns[i], f)

\* The reader of the line reads the marked-step flag under the lock and
\* dispatches on the line's message.
Dispatched == pc["STDOUT"] = "handle" /\ pc'["STDOUT"] # "handle"

\* The counting step of an Error message adds one to the current step's
\* error counter and to the total, and leaves every other field alone.
ErrorCountedOnce ==
    (pc["STDOUT"] = "count" /\ parsed["STDOUT"].type = "ERROR"
        /\ pc'["STDOUT"] # "count")
    => p' = [p EXCEPT !.current_step_errors = @ + 1, !.total_errors = @ + 1]

\* C20 as stated: a line that matches the error heuristic, contains no
\* false-positive substring and matches no marked-step pattern is classified
\* as Error and goes on to be counted, and the counting adds exactly one to
\* the error counters and nothing to a warning or critical-warning counter.
C20_ErrorLineCounted ==
    /\ [][(Taken /\ ErrorLine(step_patterns, line_content')) =>
             parsed_line'.type = "ERROR"]_vars
    /\ [][(Dispatched /\ line_content # "None"
               /\ ErrorLine(step_patterns, line_content)) =>
             pc'["STDOUT"] = "count"]_vars
    /\ [][ErrorCountedOnce]_vars

\* C20, amended: a line that matches the error heuristic, contains no
\* false-positive substring, carries no HDLPROJECT tag and matches no
\* registered step pattern is classified as Error, whether or not it also
\* matches a warning heuristic.  When its reader reads the marked-step flag
\* under the lock: if no marked step is current at that read the line goes
\* on to be counted, and the counting adds exactly one to the error counters
\* and nothing to a warning or critical-warning counter; if a marked step is
\* current at that read the line is dropped uncounted.  No step of the
\* line's reader but the counting changes a counter, whatever the other
\* reader does in between.
C20_PlainErrorLineCounted ==
    /\ [][(Taken /\ PlainErrorLine(step_patterns, line_content')) =>
             /\ parsed_line'.type = "ERROR"
             /\ parsed'["STDOUT"].type = "ERROR"
             /\ pc'["STDOUT"] = "handle"]_vars
    /\ [][(Dispatched /\ line_content # "None"
               /\ PlainErrorLine(step_patterns, line_content)) =>
             IF p.current_step_is_tcl
             THEN /\ pc'["STDOUT"] = "read"
                  /\ parsed'["STDOUT"] = NoMessage
             ELSE /\ pc'["STDOUT"] = "count"
                  /\ parsed'["STDOUT"].type = "ERROR"]_vars
    /\ [][ErrorCountedOnce]_vars
    /\ [][(/\ line_content # "None"
           /\ PlainErrorLine(step_patterns, line_content)
           /\ pc'["STDOUT"] # pc["STDOUT"] /\ pc["STDOUT"] # "count") => p' = p]_vars

\* An error line that also matches the warning heuristic was taken, the
\* other reader started the phased step S between the line's log record and
\* its dispatch, and the line has been counted: one error in the step and
\* in the total, and no warning beside the one counted before.
C20_Witness ==
    /\ line_content = "ERROR: WARNING: x"
    /\ parsed_line.type = "ERROR"
    /\ pc["STDOUT"] = "read"
    /\ log_file["STDERR"] = 1 /\ pc["STDERR"] = "read"
    /\ p.current_step_name = "S"
    /\ p.current_step_errors = 1 /\ p.total_errors = 1
    /\ p.current_step_warnings = 0 /\ p.total_warnings = 1
    /\ p.current_step_critical_warnings = 0 /\ p.total_critical_warnings = 0

\* The event a tag stands for.
TagEvent(tag) ==
    CASE tag = "context" -> "PROJECT_CONTEXT"
      [] tag = "artefacts" -> "BUILD_ARTEFACTS"
      [] tag = "timing" -> "TIMING_RESULT"

\* The registered definitions with a pattern the line matches.
MatchingDefinitions(patterns, f) ==
    {i \in 1..Len(patterns) : Matches(patterns[i], f)}

\* C22: the line taken yields one event by strict precedence: a blank line
\* Info; else a false-positive substring Info; else a tag its tagged event,
\* whatever step pattern or severity heuristic the line also matches; else
\* the first registered step definition that matches a step event of that
\* definition, which is never counted as a severity event; else a severity
\* event if a severity heuristic matches; else Info.
C22_StrictPrecedence ==
    line_content # "None" =>
        LET f == LineFeatures(line_content)
            hits == MatchingDefinitions(step_patterns, f)
            first == CHOOSE i \in hits : \A j \in hits : i <= j
        IN /\ f.blank => parsed_line.type = "INFO"
           /\ (~f.blank /\ f.fp) => parsed_line.type = "INFO"
           /\ (~f.blank /\ ~f.fp /\ f.tag # "none") =>
                 parsed_line.type = TagEvent(f.tag)
           /\ (~f.blank /\ ~f.fp /\ f.tag = "none" /\ hits # {}) =>
                 /\ parsed_line.type = "STEP_UPDATE"
                 /\ parsed_line.step_name = step_patterns[first].step_name
                 /\ parsed_line.is_step_start = step_patterns[first].is_start
                 /\ parsed_line.is_tcl_step = step_patterns[first].is_tcl_step
                 /\ pc["STDOUT"] # "count"
           /\ (~f.blank /\ ~f.fp /\ f.tag = "none" /\ hits = {}) =>
                 IF f.err \/ f.crit \/ f.warn
                 THEN parsed_line.type \in Severity
                 ELSE parsed_line.type = "INFO"

\* A line with the artefacts tag and the completion pattern of S has been
\* taken: it is the artefacts event, and S was not completed.
C22_Witness ==
    /\ line_content = "[HDLPROJECT_BUILD_ARTEFACTS] S done"
    /\ parsed_line.type = "BUILD_ARTEFACTS"
    /\ parsed_line.build_artefacts_path = "S done"
    /\ p.current_step_name = "S"
    /\ pc["STDOUT"] = "read"

\* C23: among the severity heuristics critical warning comes first, then
\* plain warning, then error: a severity event of a line matching a
\* critical-warning pattern is CriticalWarning, and that of a line matching
\* a plain-warning and an error pattern is Warning.
C23_SeverityOrder ==
    (line_content # "None" /\ parsed_line.type \in Severity) =>
        LET f == LineFeatures(line_content)
        IN /\ f.crit => parsed_line.type = "CRITICAL_WARNING"
           /\ (~f.crit /\ f.warn /\ f.err) => parsed_line.type = "WARNING"

(***************************************************************************)
(* LiveStatusDisplay as a whole: its map of projects, its two modes and    *)
(* its life from construction to stop_display.  An interactive and a       *)
(* silent display are given the same calls.                                *)
(***************************************************************************)
MaxCalls == 3

DisplayMode == {"interactive", "silent"}

\* The names calls are made with; a name need not have been added.
ProjectNames == {"p1", "p2"}

\* The step names calls are made with; "X" is not a step of the operation.
StepNames == {"A", "B", "S", "X"}

\* LiveStatusDisplay.__init__.  printed holds what stop_display printed.
LiveStatusDisplay(mode) ==
    [mode |-> mode, projects |-> <<>>, log_file_path |-> <<>>,
     running |-> FALSE, live |-> FALSE, printed |-> <<>>]

add_project(d, project_name, steps) ==
    [d EXCEPT
       !.projects = [n \in DOMAIN d.projects \cup {project_name} |->
                        IF n = project_name THEN ProjectStatus(steps)
                        ELSE d.projects[n]],
       !.log_file_path = [n \in DOMAIN d.projects \cup {project_name} |->
                        IF n = project_name THEN "None"
                        ELSE d.log_file_path[n]]]

set_project_log_file(d, project_name, log_file_path) ==
    IF project_name \in DOMAIN d.projects
    THEN [d EXCEPT !.log_file_path[project_name] = log_file_path]
    ELSE d

LiveStatusDisplay_start_project(d, project_name) ==
    IF project_name \notin DOMAIN d.projects THEN d
    ELSE [d EXCEPT !.projects[project_name] = start_project(@)]

LiveStatusDisplay_update_project_step(d, project_name, step_name, failed, warning_count, error_count, step_result) ==
    IF project_name \notin DOMAIN d.projects THEN d
    ELSE [d EXCEPT !.projects[project_name] =
             update_project_step(@, step_name, failed, warning_count,
                                 error_count, step_result)]

LiveStatusDisplay_complete_project(d, project_name, success) ==
    IF project_name \notin DOMAIN d.projects THEN d
    ELSE [d EXCEPT !.projects[project_name] = complete_project(@, success)]

start_display(d) ==
    IF d.mode # "interactive" THEN d
    ELSE [d EXCEPT !.running = TRUE, !.live = TRUE]

\* _print_final_summary and _print_message_summary: the bucket counts and,
\* when a project failed or ended with warnings, for every project with a
\* warning, an error or the failed state its state, its totals, its warned
\* and failed steps with their counts, and its log file.
final_summary(d) ==
    LET bucket(state) ==
            Cardinality({n \in DOMAIN d.projects :
                            d.projects[n].overall_state = state})
        reported == {n \in DOMAIN d.projects :
                        \/ d.projects[n].total_warnings > 0
                        \/ d.projects[n].total_errors > 0
                        \/ d.projects[n].overall_state = "failed"}
        steps_of(n) ==
            {<<k, d.projects[n].steps[k]>> : k \in
                {j \in 1..Len(d.projects[n].steps) :
                    d.projects[n].steps[j].state \in {"warning", "failed"}}}
    IN [failed_count |-> bucket("failed"),
        warning_count |-> bucket("warning"),
        success_count |-> bucket("completed"),
        projects |->
            IF bucket("failed") > 0 \/ bucket("warning") > 0
            THEN {[name |-> n,
                   overall_state |-> d.projects[n].overall_state,
                   total_warnings |-> d.projects[n].total_warnings,
                   total_errors |-> d.projects[n].total_errors,
                   steps |-> steps_of(n),
                   log_file_path |-> d.log_file_path[n]] : n \in reported}
            ELSE {}]

\* stop_display up to its waits: a display that is not interactive returns,
\* an interactive one clears _running.  The caller then waits, holding no
\* lock, for the display thread (join with a timeout) and for the screen.
stop_display(d) ==
    IF d.mode # "interactive" THEN d
    ELSE [d EXCEPT !.running = FALSE]

\* stop_display after its waits: a display that went live prints the final
\* summary of the projects as they are by then.
print_final_summary(d) ==
    IF d.mode # "interactive" THEN d
    ELSE IF d.live
         THEN [d EXCEPT !.printed = <<final_summary(d)>>]
         ELSE d

DisplayInit ==
    /\ displays = [mode \in DisplayMode |-> LiveStatusDisplay(mode)]
    /\ session = [phase |-> "created", calls |-> 0]
    /\ NoBatch
    /\ NoLocks
    /\ step_patterns = <<>> /\ status_display = FALSE
    /\ project = ProjectStatus(<<>>) /\ p = Processor
    /\ pc = [t \in Channels |-> "idle"]
    /\ parsed = [t \in Channels |-> NoMessage]
    /\ local = [t \in Channels |-> NoLocal]
    /\ emitted = [t \in Channels |-> 0]
    /\ log_file = [t \in Channels |-> 0]
    /\ main = "start" /\ exit_code = -1
    /\ result = [success |-> FALSE, error_lines |-> <<>>]
    /\ seen = NothingSeen
    /\ NoLine

\* One more call on the display, which cleanup has not dropped yet.
Called ==
    /\ session.phase # "stopped"
    /\ session.calls < MaxCalls
    /\ session' = [session EXCEPT !.calls = @ + 1]
    /\ UNCHANGED beside_display

\* StatusManager.__init__ adds each project of the batch once.
AddProject ==
    /\ Called
    /\ \E n \in ProjectNames :
         /\ n \notin DOMAIN displays["silent"].projects
         /\ displays' = [m \in DisplayMode |->
                            add_project(displays[m], n, operation_steps)]

SetProjectLogFile ==
    /\ Called
    /\ \E n \in ProjectNames :
         displays' = [m \in DisplayMode |->
                         set_project_log_file(displays[m], n, "/log/" \o n)]

StartOfProject ==
    /\ Called
    /\ \E n \in ProjectNames :
         displays' = [m \in DisplayMode |->
                         LiveStatusDisplay_start_project(displays[m], n)]

UpdateProjectStep ==
    /\ Called
    /\ \E n \in ProjectNames, step_name \in StepNames, failed \in BOOLEAN,
          warning_count \in 0..1, error_count \in 0..1,
          step_result \in {"None", "success", "warning", "error"} :
         displays' = [m \in DisplayMode |->
                         LiveStatusDisplay_update_project_step(
                             displays[m], n, step_name, failed,
                             warning_count, error_count, step_result)]

CompleteProject ==
    /\ Called
    /\ \E n \in ProjectNames, success \in BOOLEAN :
         displays' = [m \in DisplayMode |->
                         LiveStatusDisplay_complete_project(displays[m], n, success)]

\* StatusManager.start
StartDisplay ==
    /\ session.phase = "created"
    /\ session' = [session EXCEPT !.phase = "started"]
    /\ displays' = [m \in DisplayMode |-> start_display(displays[m])]
    /\ UNCHANGED beside_display

\* StatusManager.cleanup, started or not, enters stop_display.  The manager
\* keeps its display until stop_display returns, so the calls of other
\* threads still reach it.
StopDisplay ==
    /\ session.phase \in {"created", "started"}
    /\ session' = [session EXCEPT !.phase = "stopping"]
    /\ displays' = [m \in DisplayMode |-> stop_display(displays[m])]
    /\ UNCHANGED beside_display

\* stop_display comes back from its waits and prints; cleanup then drops the
\* display.
PrintFinalSummary ==
    /\ session.phase = "stopping"
    /\ session' = [session EXCEPT !.phase = "stopped"]
    /\ displays' = [m \in DisplayMode |-> print_final_summary(displays[m])]
    /\ UNCHANGED beside_display

DisplayNext ==
    \/ AddProject
    \/ SetProjectLogFile
    \/ StartOfProject
    \/ UpdateProjectStep
    \/ CompleteProject
    \/ StartDisplay
    \/ StopDisplay
    \/ PrintFinalSummary

DisplaySpec == DisplayInit /\ [][DisplayNext]_vars

(***************************************************************************)
(* Properties of a display                                                 *)
(***************************************************************************)
Stopped == session.phase = "stopped"

\* C21: the silent and the interactive display, given the same calls, hold
\* the same run states, step states and counts, and once stopped the silent
\* one has yielded the same final summary as the interactive one.
C21_SilentSameAsInteractive ==
    /\ displays["silent"].projects = displays["interactive"].projects
    /\ displays["silent"].log_file_path = displays["interactive"].log_file_path
    /\ Stopped => displays["silent"].printed = displays["interactive"].printed

\* The projects of the display (the two displays hold the same).
Tracked == displays["silent"].projects

\* C24: a run's current step index never decreases.
C24_StepIndexNeverDecreases ==
    [][\A n \in DOMAIN Tracked :
          displays'["silent"].projects[n].current_step_index
              >= Tracked[n].current_step_index]_vars

Begun == {"running", "completed", "warning", "failed"}

\* C25: no step is Pending while a step later in the step list has been
\* started or has received a result.
C25_NoPendingBeforeBegun ==
    \A n \in DOMAIN Tracked :
        \A i, j \in 1..Len(Tracked[n].steps) :
            (i < j /\ Tracked[n].steps[j].state \in Begun)
                => Tracked[n].steps[i].state # "pending"

\* C26: a step's state changes only from Pending to Running, from Pending
\* or Running to Completed, Warning or Failed, and from Pending to Skipped;
\* a Completed, Warning or Failed step keeps its state.
C26_StepStateMachine ==
    [][\A n \in DOMAIN Tracked :
          \A k \in 1..Len(Tracked[n].steps) :
             LET old == Tracked[n].steps[k].state
                 new == displays'["silent"].projects[n].steps[k].state
             IN old # new =>
                   \/ old = "pending" /\ new \in {"running", "skipped"}
                   \/ old \in {"pending", "running"}
                        /\ new \in {"completed", "warning", "failed"}]_vars

(***************************************************************************)
(* Properties of a run's two readers                                       *)
(***************************************************************************)
\* Reader t adds the severity event it holds to the counters.
Increments(t) == pc[t] = "count" /\ pc'[t] # "count"

\* A step becomes the processor's current step.
StepStarts ==
    /\ p'.current_step_name # "None"
    /\ p'.current_step_name # p.current_step_name

\* C27: a severity event is added to the counters only if no marked step is
\* current at the moment of the increment, and no step starts between the
\* decision to count an event and its increment.
C27_DecisionAndIncrementAgree ==
    /\ [][\A t \in Channels : Increments(t) => ~p.current_step_is_tcl]_vars
    /\ [][StepStarts => \A t \in Channels : pc[t] # "count"]_vars

\* Reader t has applied a step start or result to the processor under the
\* lock and is about to make the display call for it, which the display
\* accepts.
Pushing(t) ==
    /\ status_display
    /\ pc[t] \in {"warn", "report"}
    /\ ~CallRaises("update_project_step",
                   IF parsed[t].is_step_start THEN start_call_kwargs
                   ELSE result_call_kwargs,
                   update_project_step_params)

\* C28: the display receives a run's step updates in the order in which they
\* were applied to the processor.  Either of two readers that both hold an
\* applied update may make its display call first, so the order is kept
\* under every interleaving only if no two readers hold one at a time.
C28_DisplayOrderIsProcessorOrder ==
    Cardinality({t \in Channels : Pushing(t)}) <= 1

\* C30: with a display attached no reader loop ends by an exception and
\* the finalize does not raise.
C30_DisplayAcceptsEveryCall ==
    status_display =>
        /\ \A t \in Channels : pc[t] # "fault"
        /\ main # "raised"

(***************************************************************************)
(* The locks: a processor's own lock (threading.Lock), the display's map   *)
(* lock (threading.RLock) and each ProjectStatus's lock (threading.Lock),  *)
(* taken by the readers of the runs, the coordinators that finalize the    *)
(* runs and the display's render thread.  A method is modelled by the      *)
(* sequence of lock operations and display calls it makes.                 *)
(***************************************************************************)
DisplayLock == [kind |-> "display", run |-> "None"]

ProcessorLock(r) == [kind |-> "processor", run |-> r]

ProjectLock(r) == [kind |-> "project", run |-> r]

Locks == {DisplayLock} \cup {ProcessorLock(r) : r \in ProjectNames}
                       \cup {ProjectLock(r) : r \in ProjectNames}

\* Only the display's lock is an RLock.
Reentrant(l) == l.kind = "display"

\* An operation of a thread: what it does, on which lock, and what the code
\* does under the lock it has just taken ("None": nothing that matters to
\* the locks taken later).
acquire(l) == [op |-> "acquire", lock |-> l, effect |-> "None"]

acquire_to(l, effect) == [op |-> "acquire", lock |-> l, effect |-> effect]

release(l) == [op |-> "release", lock |-> l, effect |-> "None"]

\* The processor calls a method of the display.
display_call == [op |-> "call", lock |-> DisplayLock, effect |-> "None"]

\* The call raises: the method the thread is in is left by the exception.
raise == [op |-> "raise", lock |-> DisplayLock, effect |-> "None"]

\* `with lock:' around a body.
with_lock(l, body) == <<acquire(l)>> \o body \o <<release(l)>>

\* A method of ProjectStatus: each one takes the object's lock once and calls
\* nothing that takes a lock.
ProjectStatus_locks(r) == with_lock(ProjectLock(r), <<>>)

\* A call of the processor on update_project_step or complete_project: the
\* call, then either the exception or the method, which takes the map lock
\* around one method of the run's ProjectStatus (start_step, complete or
\* fail; effect names what that method does to overall_state).
display_method_locks(r, method, kwargs, params, effect) ==
    <<display_call>> \o
    (IF CallRaises(method, kwargs, params)
     THEN <<raise>>
     ELSE with_lock(DisplayLock,
                    <<acquire_to(ProjectLock(r), effect), release(ProjectLock(r))>>))

\* LiveStatusDisplay.start_project: under the map lock alone it turns a
\* pending project into a running one.
start_project_locks ==
    <<display_call>> \o
    (IF CallRaises("start_project", {}, {})
     THEN <<raise>>
     ELSE <<acquire_to(DisplayLock, "start"), release(DisplayLock)>>)

\* _handle_step_update with the display call made inside the lock section.
handle_step_update_locks_inside(r) ==
    with_lock(ProcessorLock(r),
              display_method_locks(r, "update_project_step", start_call_kwargs,
                                   update_project_step_params, "None"))

\* _handle_step_update at a step start: the lock section, then the display
\* call (failed=False on a started project: start_step, overall_state stays).
handle_step_update_locks(r) ==
    with_lock(ProcessorLock(r), <<>>) \o
    display_method_locks(r, "update_project_step", start_call_kwargs,
                         update_project_step_params, "None")

\* _complete_step: the lock section, the note of step warnings, the display
\* call, the note of a failed marked step.
complete_step_locks(r, warnings, tcl_failure) ==
    with_lock(ProcessorLock(r), <<>>) \o
    (IF warnings THEN with_lock(ProcessorLock(r), <<>>) ELSE <<>>) \o
    display_method_locks(r, "update_project_step", result_call_kwargs,
                         update_project_step_params, "None") \o
    (IF tcl_failure THEN with_lock(ProcessorLock(r), <<>>) ELSE <<>>)

\* The kinds of line a reader handles, told apart by the locks they take.
LineKinds == {"other", "severity", "suppressed", "step_start", "step_result",
              "step_result_warnings", "step_result_tcl_failure",
              "tag", "timing"}

\* _handle_parsed_message: the read of is_in_tcl_step under the lock, then
\* the handling of the event.
handle_parsed_message_locks(r, kind) ==
    with_lock(ProcessorLock(r), <<>>) \o
    CASE kind = "severity" -> with_lock(ProcessorLock(r), <<>>)
      [] kind = "step_start" -> handle_step_update_locks(r)
      [] kind = "step_result" -> complete_step_locks(r, FALSE, FALSE)
      [] kind = "step_result_warnings" -> complete_step_locks(r, TRUE, FALSE)
      [] kind = "step_result_tcl_failure" -> complete_step_locks(r, FALSE, TRUE)
      [] kind = "tag" ->
           display_method_locks(r, "set_project_context_name", {}, {}, "None")
      [] kind = "timing" ->
           with_lock(ProcessorLock(r), <<>>) \o
           display_method_locks(r, "set_extra_info", {}, {}, "None")
      [] OTHER -> <<>>

\* _update_status_display: a severity event, counted or suppressed, is
\* passed to the display's process_output, which takes no lock.
update_status_display_locks(kind) ==
    IF kind \in {"severity", "suppressed"} THEN <<display_call>> ELSE <<>>

\* One turn of the loop of _process_stream.
process_stream_locks(r, kind) ==
    update_status_display_locks(kind) \o handle_parsed_message_locks(r, kind)

\* The end of process_output: _finalize_incomplete_step (with the display
\* call if a step was left incomplete), the lock section that determines
\* the success, and complete_project, which calls complete or fail of the
\* run's ProjectStatus.
finalize_locks(r, incomplete, success) ==
    with_lock(ProcessorLock(r), <<>>) \o
    (IF incomplete
     THEN display_method_locks(r, "update_project_step", result_call_kwargs,
                               update_project_step_params, "None")
     ELSE <<>>) \o
    with_lock(ProcessorLock(r), <<>>) \o
    display_method_locks(r, "complete_project", {"success", "message"},
                         {"success", "message"},
                         IF success THEN "complete" ELSE "fail")

\* What a method does to a project's overall_state.  complete finds
\* total_warnings 0: the display's totals grow only in
\* complete_step_with_result, which no call of the processor reaches.
overall_state_after(effect, state) ==
    CASE effect = "start" -> IF state = "pending" THEN "running" ELSE state
      [] effect = "complete" -> "completed"
      [] effect = "fail" -> "failed"
      [] OTHER -> state

\* The projects' names as sorted() orders them.
sorted_names == <<"p1", "p2">>

\* The order in which _generate_display shows the groups of projects.
display_order == <<"running", "warning", "failed", "completed", "pending">>

\* The steps every project was added with.
project_steps == <<"A", "B", "S">>

\* _generate_display for one project: its message summary, and its latest
\* message if it is running and has steps.
project_entry_locks(r, state) ==
    ProjectStatus_locks(r) \o
    (IF state = "running" /\ project_steps # <<>>
     THEN ProjectStatus_locks(r) ELSE <<>>)

RECURSIVE group_locks(_, _, _)
\* The projects of one group, from the k-th name on, in the order of their
\* names.
group_locks(states, state, k) ==
    IF k > Len(sorted_names) THEN <<>>
    ELSE (IF states[sorted_names[k]] = state
          THEN project_entry_locks(sorted_names[k], state) ELSE <<>>)
         \o group_locks(states, state, k + 1)

RECURSIVE per_project_locks(_, _)
\* What _generate_display does for the projects: group after group, from
\* the g-th group of display_order on.
per_project_locks(states, g) ==
    IF g > Len(display_order) THEN <<>>
    ELSE group_locks(states, display_order[g], 1)
         \o per_project_locks(states, g + 1)

\* _generate_display: the whole rendering under the map lock; which
\* ProjectStatus locks it takes is settled by the states it finds there.
generate_display_locks ==
    <<acquire_to(DisplayLock, "render"), release(DisplayLock)>>

\* _print_final_summary under the map lock: it calls _print_message_summary,
\* which takes the map lock again, if a project failed or has warnings.
print_final_summary_locks ==
    <<acquire_to(DisplayLock, "summary"), release(DisplayLock)>>

message_summary_locks(states) ==
    IF \E r \in ProjectNames : states[r] \in {"failed", "warning"}
    THEN with_lock(DisplayLock, <<>>)
    ELSE <<>>

\* The operations a thread does under the lock it has just taken.
under_lock(effect, states) ==
    CASE effect = "render" -> per_project_locks(states, 1)
      [] effect = "summary" -> message_summary_locks(states)
      [] OTHER -> <<>>

RECURSIVE until_raise(_)
\* The operations a thread reaches: an exception ends the method, whatever
\* was to follow the call that raised.
until_raise(ops) ==
    IF ops = <<>> THEN <<>>
    ELSE IF Head(ops).op = "raise" THEN <<Head(ops)>>
    ELSE <<Head(ops)>> \o until_raise(Tail(ops))

Readers == [role : {"reader"}, run : ProjectNames, channel : Channels]

Coordinators == [role : {"coordinator"}, run : ProjectNames, channel : {"None"}]

Coordinator(r) == [role |-> "coordinator", run |-> r, channel |-> "None"]

RenderThread == [role |-> "render", run |-> "None", channel |-> "None"]

\* The thread of the handler, which stops the display when the runs are over.
MainThread == [role |-> "main", run |-> "None", channel |-> "None"]

Threads == Readers \cup Coordinators \cup {RenderThread, MainThread}

\* The readers whose stream is at its end from the start: the error stream
\* of the second run carries nothing.
SilentStreams == {t \in Readers : t.run = "p2" /\ t.channel = "STDERR"}

\* The display has been started and is rendering, the projects are pending,
\* no run has called process_output yet.
LockInit ==
    /\ holder = [l \in Locks |-> {}]
    /\ depth = [l \in Locks |-> 0]
    /\ todo = [t \in Threads |-> <<>>]
    /\ stage = [t \in Threads |->
                  IF t \in SilentStreams THEN "ended"
                  ELSE IF t \in Coordinators \cup {MainThread} THEN "new"
                  ELSE "running"]
    /\ overall_state = [r \in ProjectNames |-> "pending"]
    /\ NoRun
    /\ NoBatch
    /\ NoDisplay

Between(t) == stage[t] # "ended" /\ todo[t] = <<>>

\* process_output begins: start_project, before the readers are started.
\* Runs are only started inside execute, which the handler's thread has
\* left when it stops the display.
BeginProcessOutput(t) ==
    /\ t \in Coordinators
    /\ stage[t] = "new"
    /\ stage[MainThread] = "new"
    /\ todo' = [todo EXCEPT ![t] = until_raise(start_project_locks)]
    /\ stage' = [stage EXCEPT ![t] = "starting"]
    /\ UNCHANGED <<holder, depth, overall_state, beside_locks>>

\* A reader, started by its run's process_output, takes the next line of
\* its stream.
BeginLine(t) ==
    /\ t \in Readers
    /\ Between(t)
    /\ stage[Coordinator(t.run)] = "joining"
    /\ \E kind \in LineKinds :
         todo' = [todo EXCEPT ![t] =
                    until_raise(process_stream_locks(t.run, kind))]
    /\ UNCHANGED <<holder, depth, stage, overall_state, beside_locks>>

\* A reader's stream ends.
StreamEnds(t) ==
    /\ t \in Readers
    /\ Between(t)
    /\ stage[Coordinator(t.run)] = "joining"
    /\ stage' = [stage EXCEPT ![t] = "ended"]
    /\ UNCHANGED <<holder, depth, todo, overall_state, beside_locks>>

\* A run's coordinator has joined both readers and finalizes.
BeginFinalize(t) ==
    /\ t \in Coordinators
    /\ stage[t] = "joining"
    /\ \A u \in Readers : u.run = t.run => stage[u] = "ended"
    /\ \E incomplete \in BOOLEAN, success \in BOOLEAN :
         todo' = [todo EXCEPT ![t] =
                    until_raise(finalize_locks(t.run, incomplete, success))]
    /\ stage' = [stage EXCEPT ![t] = "finalizing"]
    /\ UNCHANGED <<holder, depth, overall_state, beside_locks>>

\* The render thread's _update_loop finds _running set and renders once
\* more.
BeginRender(t) ==
    /\ t = RenderThread
    /\ Between(t)
    /\ stage[MainThread] = "new"
    /\ todo' = [todo EXCEPT ![t] = generate_display_locks]
    /\ UNCHANGED <<holder, depth, stage, overall_state, beside_locks>>

\* The render thread's loop finds _running cleared and ends.
StopRender(t) ==
    /\ t = RenderThread
    /\ Between(t)
    /\ stage[MainThread] # "new"
    /\ stage' = [stage EXCEPT ![t] = "ended"]
    /\ UNCHANGED <<holder, depth, todo, overall_state, beside_locks>>

\* execute is over and the handler's thread, in the finally of
\* BaseHandler.execute, is in stop_display: it clears _running, waits for
\* the render thread no longer than the timeout of its join, and goes on to
\* render once more and to print the final summary.  Every run that called
\* process_output has left it (the executor is shut down waiting for its
\* workers); a run that never called it (its preparation raised, or the
\* batch was given up before it) is still new and its project pending.
BeginStopDisplay(t) ==
    /\ t = MainThread
    /\ stage[t] = "new"
    /\ \A c \in Coordinators : stage[c] \in {"new", "ended"}
    /\ todo' = [todo EXCEPT ![t] =
                  generate_display_locks \o print_final_summary_locks]
    /\ stage' = [stage EXCEPT ![t] = "stopping"]
    /\ UNCHANGED <<holder, depth, overall_state, beside_locks>>

Busy(t) == todo[t] # <<>>

\* The thread's next operation can be done now: an acquire needs the lock
\* free, or held by the thread itself if the lock is reentrant.
Runnable(t) ==
    /\ Busy(t)
    /\ Head(todo[t]).op = "acquire" =>
         LET l == Head(todo[t]).lock
         IN \/ depth[l] = 0
            \/ Reentrant(l) /\ t \in holder[l]

\* The method the thread is in is over: process_output has started its
\* readers or has returned, stop_display has returned.
MethodOver(t, rest) ==
    stage' = [stage EXCEPT ![t] =
                 IF rest # <<>> THEN @
                 ELSE CASE @ = "starting" -> "joining"
                        [] @ = "finalizing" -> "ended"
                        [] @ = "stopping" -> "ended"
                        [] OTHER -> @]

AcquireLock(t) ==
    /\ Runnable(t)
    /\ Head(todo[t]).op = "acquire"
    /\ holder' = [holder EXCEPT ![Head(todo[t]).lock] = {t}]
    /\ depth' = [depth EXCEPT ![Head(todo[t]).lock] = @ + 1]
    /\ todo' = [todo EXCEPT ![t] =
                   under_lock(Head(@).effect, overall_state) \o Tail(@)]
    /\ overall_state' =
         IF t.run \in ProjectNames
         THEN [overall_state EXCEPT ![t.run] =
                  overall_state_after(Head(todo[t]).effect, @)]
         ELSE overall_state
    /\ UNCHANGED <<stage, beside_locks>>

ReleaseLock(t) ==
    /\ Busy(t)
    /\ Head(todo[t]).op = "release"
    /\ LET l == Head(todo[t]).lock
       IN /\ depth' = [depth EXCEPT ![l] = @ - 1]
          /\ holder' = [holder EXCEPT ![l] = IF depth[l] = 1 THEN {} ELSE @]
    /\ todo' = [todo EXCEPT ![t] = Tail(@)]
    /\ MethodOver(t, Tail(todo[t]))
    /\ UNCHANGED <<overall_state, beside_locks>>

CallDisplay(t) ==
    /\ Busy(t)
    /\ Head(todo[t]).op = "call"
    /\ todo' = [todo EXCEPT ![t] = Tail(@)]
    /\ UNCHANGED <<holder, depth, stage, overall_state, beside_locks>>

\* The exception leaves the reader's loop (_process_stream catches it
\* outside the loop) or process_output.
Raise(t) ==
    /\ Busy(t)
    /\ Head(todo[t]).op = "raise"
    /\ todo' = [todo EXCEPT ![t] = <<>>]
    /\ stage' = [stage EXCEPT ![t] = "ended"]
    /\ UNCHANGED <<holder, depth, overall_state, beside_locks>>

LockNext ==
    \E t \in Threads :
        \/ BeginProcessOutput(t)
        \/ BeginLine(t)
        \/ StreamEnds(t)
        \/ BeginFinalize(t)
        \/ BeginRender(t)
        \/ StopRender(t)
        \/ BeginStopDisplay(t)
        \/ AcquireLock(t)
        \/ ReleaseLock(t)
        \/ CallDisplay(t)
        \/ Raise(t)

LockSpec == LockInit /\ [][LockNext]_vars

(***************************************************************************)
(* Properties of the locks                                                 *)
(***************************************************************************)
Holds(t, l) == t \in holder[l]

\* The thread's next operation is this one.
About(t, op) == Busy(t) /\ Head(todo[t]) = op

\* The thread's next operation is to acquire this lock.
Asks(t, l) == Busy(t) /\ Head(todo[t]).op = "acquire" /\ Head(todo[t]).lock = l

\* Some thread has work left and none of them can take its next step.
Deadlocked == (\E t \in Threads : Busy(t)) /\ ~(\E t \in Threads : Runnable(t))

\* C29: the threads never deadlock on the locks: whoever holds a run's
\* ProjectStatus lock took the display's map lock first and never asks for
\* the map lock while holding only the former; no thread asks again for a
\* ProjectStatus lock it holds; no thread holds a processor's lock when it
\* calls, or is inside, a display method.
C29_NoDeadlock ==
    /\ ~Deadlocked
    /\ \A t \in Threads : \A r \in ProjectNames :
         /\ Holds(t, ProjectLock(r)) => Holds(t, DisplayLock)
         /\ Asks(t, DisplayLock) => ~Holds(t, ProjectLock(r))
         /\ Asks(t, ProjectLock(r)) => ~Holds(t, ProjectLock(r))
         /\ Holds(t, ProcessorLock(r)) =>
              ~(About(t, display_call) \/ Holds(t, DisplayLock))

\* A reader is inside a ProjectStatus method under the map lock while the
\* render thread waits for the map lock, the other reader of the run holds
\* the processor's lock and the other run's coordinator is about to call the
\* display.
C29_Witness ==
    \E t, u \in Readers :
        /\ t # u /\ t.run = u.run
        /\ Holds(t, DisplayLock) /\ Holds(t, ProjectLock(t.run))
        /\ Holds(u, ProcessorLock(u.run))
        /\ Asks(RenderThread, DisplayLock)
        /\ \E c \in Coordinators : c.run # t.run /\ About(c, display_call)

(***************************************************************************)
(* Properties of a run and its display                                     *)
(***************************************************************************)
\* The success VivadoExecutor.execute hands on: that of process_output, or
\* False when process_output left with an exception, which execute catches.
execute_success == IF main = "returned" THEN result.success ELSE FALSE

\* C31: once the run is over with a display attached, the display's overall
\* state is failed exactly if the success handed on is false, completed or
\* warning otherwise, and never running or pending.
C31_DisplayAgreesWithSuccess ==
    (status_display /\ Over) =>
        /\ project.overall_state \in {"failed", "completed", "warning"}
        /\ project.overall_state = "failed" <=> ~execute_success

(***************************************************************************)
(* Further properties of a display                                         *)
(***************************************************************************)
\* The 0-based indexes of the steps of a ProjectStatus that are Running.
RunningSteps(ps) == {k - 1 : k \in {j \in 1..Len(ps.steps) : ps.steps[j].state = "running"}}

\* C32: at most one step of a run is Running, and a Running step is the
\* step at current_step_index.
C32_OneRunningStep ==
    \A n \in DOMAIN Tracked :
        RunningSteps(Tracked[n]) \subseteq {Tracked[n].current_step_index}

RECURSIVE SumOver(_, _)
\* The sum of a count over the steps of a step list.
SumOver(steps, count) ==
    IF steps = <<>> THEN 0
    ELSE Head(steps)[count] + SumOver(Tail(steps), count)

\* C34: a run's total_warnings is the sum of its steps' warning_count and
\* its total_errors the sum of its steps' error_count.
C34_TotalsAreStepSums ==
    \A n \in DOMAIN Tracked :
        /\ Tracked[n].total_warnings = SumOver(Tracked[n].steps, "warning_count")
        /\ Tracked[n].total_errors = SumOver(Tracked[n].steps, "error_count")

(***************************************************************************)
(* Properties of the processor's counters                                  *)
(***************************************************************************)
\* Reader t handles a step result: the lock section of _complete_step.
HandlesResult(t) == pc[t] = "complete" /\ pc'[t] # "complete"

\* What reader t's step adds to the run total of a severity: one for a
\* counted event of that severity, the count the marker carries for a
\* handled step result.
Gain(t, type) ==
    IF Increments(t) /\ parsed[t].type = type THEN 1
    ELSE IF HandlesResult(t)
         THEN CASE type = "WARNING" -> parsed[t].warning_count
                [] type = "CRITICAL_WARNING" -> parsed[t].critical_warning_count
                [] type = "ERROR" -> parsed[t].error_count
         ELSE 0

StepCountersZero(q) ==
    /\ q.current_step_warnings = 0
    /\ q.current_step_critical_warnings = 0
    /\ q.current_step_errors = 0

\* C33: the run totals start at zero and every step of the run adds to each
\* total exactly the severity events counted and the counts carried by the
\* result markers handled in it, so the totals are conserved, never decrease
\* and are not reset; a step start and a step completion leave the per-step
\* counters at zero.
C33_TotalsConserved ==
    /\ p.total_warnings = 0 /\ p.total_critical_warnings = 0 /\ p.total_errors = 0
    /\ [][/\ p'.total_warnings = p.total_warnings
                 + Gain("STDOUT", "WARNING") + Gain("STDERR", "WARNING")
          /\ p'.total_critical_warnings = p.total_critical_warnings
                 + Gain("STDOUT", "CRITICAL_WARNING")
                 + Gain("STDERR", "CRITICAL_WARNING")
          /\ p'.total_errors = p.total_errors
                 + Gain("STDOUT", "ERROR") + Gain("STDERR", "ERROR")
          /\ (StepStarts \/ \E t \in Channels : HandlesResult(t))
                 => StepCountersZero(p')]_vars

(***************************************************************************)
(* Termination of a run                                                    *)
(***************************************************************************)
\* A run whose process exits, whose streams end and whose threads are
\* scheduled: whatever step of the run can be taken is taken in the end.
RunFairSpec == Spec /\ WF_vars(Next)

\* C35: once the process has exited and both channels have reached their
\* end, process_output returns a result, also when a reader loop stopped
\* early on a contained fault.
C35_ProcessOutputReturns == <>Returned

====
